---- MODULE Spec2Model ----
(***************************************************************************)
(* xsdmesh: component registry, storage strategies (exact-match dict and   *)
(* Patricia trie + Bloom filter) and the streaming parse engine with its   *)
(* namespace/path context.                                                 *)
(*                                                                         *)
(* Conventions.  A Python str is a sequence of one-character strings.      *)
(* A Python "X | None" is a sequence of length 0 (None) or 1 (<<x>>).      *)
(* A Python dict is the sequence of its <<key, value>> pairs in insertion  *)
(* order.  A Python list is a sequence.                                    *)
(***************************************************************************)
EXTENDS Integers, Sequences, FiniteSets, TLC

\* ------------------------------------------------------------------ bounds
MaxOps == 3
MaxParseEvents == 4
MaxDepth == 2
BloomSize == 5
NumHashes == 2

\* ---------------------------------------------------------------- universe
NoNamespace == <<>>
NamespaceUniverse == {<<"a">>, <<"a", "b">>, <<"a", "c">>}
LocalNameUniverse == {<<"x">>}
ComponentIds == {1, 2}
PrefixUniverse == {<<>>, <<"a">>, <<"a", "b">>, <<"a", "c">>, <<"b">>}

None == <<>>
Some(x) == <<x>>

\* ------------------------------------------------------------- Python dict
DictHas(d, k) == \E i \in 1..Len(d) : d[i][1] = k
DictIdx(d, k) == CHOOSE i \in 1..Len(d) : d[i][1] = k
DictGet(d, k) == d[DictIdx(d, k)][2]
DictSet(d, k, v) ==
    IF DictHas(d, k) THEN [d EXCEPT ![DictIdx(d, k)] = <<k, v>>]
    ELSE Append(d, <<k, v>>)
DictDel(d, k) == SelectSeq(d, LAMBDA e : e[1] # k)
DictKeys(d) == [i \in 1..Len(d) |-> d[i][1]]
DictValues(d) == [i \in 1..Len(d) |-> d[i][2]]

\* ------------------------------------------------------------- Python str
Take(s, n) == SubSeq(s, 1, n)
Drop(s, n) == SubSeq(s, n + 1, Len(s))
StartsWith(s, p) == Len(p) <= Len(s) /\ Take(s, Len(p)) = p
SeqToSet(s) == {s[i] : i \in 1..Len(s)}
RECURSIVE Flatten(_)
Flatten(ss) == IF ss = <<>> THEN <<>> ELSE Head(ss) \o Flatten(Tail(ss))

\* ------------------------------------------------------------------ QName
QName(ns, local) == [namespace |-> ns, local_name |-> local]
expanded(q) ==
    IF q.namespace # <<>>
    THEN <<"{">> \o q.namespace \o <<"}">> \o q.local_name
    ELSE q.local_name

\* -------------------------------------------------------------- Component
Component(id, name, tns) == [id |-> id, name |-> name, target_namespace |-> tns]
OrEmpty(o) == IF o = None \/ o = Some(<<>>) THEN <<>> ELSE o[1]
qname(c) == QName(OrEmpty(c.target_namespace), OrEmpty(c.name))

Components ==
    {Component(i, n, t) :
        i \in ComponentIds,
        n \in {None} \cup {Some(l) : l \in LocalNameUniverse},
        t \in {None} \cup {Some(u) : u \in NamespaceUniverse}}
QNames == {qname(c) : c \in Components}
\* the components and names the registry is driven with
RegistryComponents == {c \in Components : c.target_namespace # Some(<<"a", "c">>)}
RegistryQNames == {qname(c) : c \in RegistryComponents}

\* ------------------------------------------------------------ DictStorage
DictStorageInit == [items |-> <<>>, namespace_index |-> <<>>]

\* faulty variant: store without the duplicate check (the later value overwrites)
DictStore_NoDuplicateCheck(s, q, component) ==
    LET ns == q.namespace
        idx == IF DictHas(s.namespace_index, ns)
               THEN s.namespace_index
               ELSE DictSet(s.namespace_index, ns, <<>>)
    IN [st |-> [items |-> DictSet(s.items, q, component),
                namespace_index |->
                    DictSet(idx, ns, Append(DictGet(idx, ns), component))],
        raised |-> "no"]

DictStore(s, q, component) ==
    IF DictHas(s.items, q)
    THEN [st |-> s, raised |-> "ValueError: already registered"]
    ELSE LET ns == q.namespace
             idx == IF DictHas(s.namespace_index, ns)
                    THEN s.namespace_index
                    ELSE DictSet(s.namespace_index, ns, <<>>)
         IN [st |-> [items |-> DictSet(s.items, q, component),
                     namespace_index |->
                         DictSet(idx, ns, Append(DictGet(idx, ns), component))],
             raised |-> "no"]

DictLookup(s, q) == IF DictHas(s.items, q) THEN Some(DictGet(s.items, q)) ELSE None

DictRemove(s, q) ==
    IF ~DictHas(s.items, q)
    THEN [st |-> s, ret |-> FALSE]
    ELSE LET items2 == DictDel(s.items, q)
             ns == q.namespace
             idx2 ==
                IF DictHas(s.namespace_index, ns)
                THEN LET kept == SelectSeq(DictGet(s.namespace_index, ns),
                                           LAMBDA c : qname(c) # q)
                     IN IF kept = <<>>
                        THEN DictDel(s.namespace_index, ns)
                        ELSE DictSet(s.namespace_index, ns, kept)
                ELSE s.namespace_index
         IN [st |-> [items |-> items2, namespace_index |-> idx2], ret |-> TRUE]

DictContains(s, q) == DictHas(s.items, q)
DictLen(s) == Len(s.items)
DictByNamespace(s, ns) ==
    IF DictHas(s.namespace_index, ns) THEN DictGet(s.namespace_index, ns) ELSE <<>>
DictByNamespacePrefix(s, prefix) ==
    Flatten([i \in 1..Len(s.namespace_index) |->
        IF StartsWith(s.namespace_index[i][1], prefix)
        THEN s.namespace_index[i][2] ELSE <<>>])
DictNamespaces(s) == DictKeys(s.namespace_index)
DictAllItems(s) == DictValues(s.items)
DictClear(s) == [items |-> <<>>, namespace_index |-> <<>>]

\* ----------------------------------------------------------- PatriciaTrie
TrieNode(prefix, value, children) ==
    [prefix |-> prefix, value |-> value, children |-> children]
PatriciaTrieInit == [root |-> TrieNode(<<>>, None, <<>>), size |-> 0]

RECURSIVE CommonPrefixFrom(_, _, _)
CommonPrefixFrom(s1, s2, i) ==
    IF i > Len(s1) \/ i > Len(s2) THEN i - 1
    ELSE IF s1[i] # s2[i] THEN i - 1
    ELSE CommonPrefixFrom(s1, s2, i + 1)
CommonPrefixLength(s1, s2) == CommonPrefixFrom(s1, s2, 1)

\* The body of the while loop of __setitem__, from `node` with `remaining`
\* left to insert; returns the rebuilt node and the increment of size.
RECURSIVE SetItemAt(_, _, _)
SetItemAt(node, remaining, value) ==
    IF remaining = <<>>
    THEN [node |-> [node EXCEPT !.value = Some(value)],
          inc |-> IF node.value = None THEN 1 ELSE 0]
    ELSE
    LET first_char == remaining[1] IN
    IF ~DictHas(node.children, first_char)
    THEN [node |-> [node EXCEPT !.children =
                       DictSet(@, first_char, TrieNode(remaining, Some(value), <<>>))],
          inc |-> 1]
    ELSE
    LET child == DictGet(node.children, first_char)
        prefix_len == CommonPrefixLength(remaining, child.prefix)
    IN
    IF prefix_len = Len(child.prefix)
    THEN LET r == SetItemAt(child, Drop(remaining, prefix_len), value)
         IN [node |-> [node EXCEPT !.children = DictSet(@, first_char, r.node)],
             inc |-> r.inc]
    ELSE LET old_suffix == Drop(child.prefix, prefix_len)
             moved == [child EXCEPT !.prefix = old_suffix]
             split_node == TrieNode(Take(remaining, prefix_len), None,
                                    << <<old_suffix[1], moved>> >>)
             rest == Drop(remaining, prefix_len)
             r == IF rest = <<>>
                  THEN [node |-> [split_node EXCEPT !.value = Some(value)], inc |-> 1]
                  ELSE SetItemAt(split_node, rest, value)
         IN [node |-> [node EXCEPT !.children = DictSet(@, first_char, r.node)],
             inc |-> r.inc]

TrieSetItem(t, key, value) ==
    IF key = <<>>
    THEN [st |-> t, raised |-> "ValueError: Key cannot be empty"]
    ELSE LET r == SetItemAt(t.root, key, value)
         IN [st |-> [root |-> r.node, size |-> t.size + r.inc], raised |-> "no"]

RECURSIVE GetAt(_, _)
GetAt(node, remaining) ==
    IF remaining = <<>> THEN node.value
    ELSE
    LET first_char == remaining[1] IN
    IF ~DictHas(node.children, first_char) THEN None
    ELSE
    LET child == DictGet(node.children, first_char)
        prefix_len == CommonPrefixLength(remaining, child.prefix)
    IN IF prefix_len < Len(child.prefix) THEN None
       ELSE GetAt(child, Drop(remaining, prefix_len))
TrieGet(t, key) == GetAt(t.root, key)

RECURSIVE CollectKeys(_, _)
RECURSIVE CollectChildren(_, _, _)
CollectKeys(node, path) ==
    (IF node.value # None THEN <<path>> ELSE <<>>)
        \o CollectChildren(node.children, 1, path)
CollectChildren(children, i, path) ==
    IF i > Len(children) THEN <<>>
    ELSE CollectKeys(children[i][2], path \o children[i][2].prefix)
            \o CollectChildren(children, i + 1, path)

\* faulty variant: when the prefix ends inside an edge, the path is extended
\* by the rest of the prefix and not by the whole edge label
RECURSIVE KeysFrom_RestAsLabel(_, _, _)
KeysFrom_RestAsLabel(node, remaining, path) ==
    IF remaining = <<>> THEN CollectKeys(node, path)
    ELSE
    LET first_char == remaining[1] IN
    IF ~DictHas(node.children, first_char) THEN <<>>
    ELSE
    LET child == DictGet(node.children, first_char)
        prefix_len == CommonPrefixLength(remaining, child.prefix)
    IN IF prefix_len < Len(remaining)
       THEN IF prefix_len = Len(child.prefix)
            THEN KeysFrom_RestAsLabel(child, Drop(remaining, prefix_len),
                                      path \o child.prefix)
            ELSE <<>>
       ELSE CollectKeys(child, path \o remaining)

\* The navigation loop of keys_with_prefix followed by _collect_keys.
RECURSIVE KeysFrom(_, _, _)
KeysFrom(node, remaining, path) ==
    IF remaining = <<>> THEN CollectKeys(node, path)
    ELSE
    LET first_char == remaining[1] IN
    IF ~DictHas(node.children, first_char) THEN <<>>
    ELSE
    LET child == DictGet(node.children, first_char)
        prefix_len == CommonPrefixLength(remaining, child.prefix)
    IN IF prefix_len < Len(remaining)
       THEN IF prefix_len = Len(child.prefix)
            THEN KeysFrom(child, Drop(remaining, prefix_len), path \o child.prefix)
            ELSE <<>>
       ELSE CollectKeys(child, path \o child.prefix)
TrieKeysWithPrefix(t, prefix) == KeysFrom(t.root, prefix, <<>>)

\* In-place mutation of the bucket (a dict object) held as the value of the
\* node that TrieGet(key) reaches: the node keeps its place, only the dict
\* it references changes.
RECURSIVE BucketAt(_, _, _)
BucketAt(node, remaining, bucket) ==
    IF remaining = <<>> THEN [node EXCEPT !.value = Some(bucket)]
    ELSE LET first_char == remaining[1]
             child == DictGet(node.children, first_char)
         IN [node EXCEPT !.children =
                DictSet(@, first_char,
                        BucketAt(child, Drop(remaining, Len(child.prefix)), bucket))]
TrieMutateBucket(t, key, bucket) == [t EXCEPT !.root = BucketAt(t.root, key, bucket)]

\* ------------------------------------------------------------ BloomFilter
CharCode(ch) ==
    CASE ch = "a" -> 1 [] ch = "b" -> 2 [] ch = "c" -> 3 [] ch = "x" -> 4
      [] ch = "{" -> 5 [] ch = "}" -> 6 [] OTHER -> 7
\* hashlib.md5 / hashlib.sha1 of the UTF-8 text, read as an integer: modelled
\* as two fixed deterministic digests of the character sequence.
RECURSIVE Md5Int(_)
Md5Int(data) ==
    IF data = <<>> THEN 7
    ELSE (31 * Md5Int(Take(data, Len(data) - 1)) + CharCode(data[Len(data)])) % 1009
RECURSIVE Sha1Int(_)
Sha1Int(data) ==
    IF data = <<>> THEN 3
    ELSE (17 * Sha1Int(Take(data, Len(data) - 1)) + 5 * CharCode(data[Len(data)])) % 997

BloomInit == [bits |-> {}, count |-> 0]
BloomHashes(item) ==
    [i \in 1..NumHashes |-> (Md5Int(item) + (i - 1) * Sha1Int(item)) % BloomSize]
\* faulty variant: add sets only the first probe position
BloomAdd_FirstProbeOnly(b, item) ==
    [bits |-> b.bits \cup {BloomHashes(item)[1]}, count |-> b.count + 1]

BloomAdd(b, item) ==
    [bits |-> b.bits \cup SeqToSet(BloomHashes(item)), count |-> b.count + 1]
BloomContains(b, item) == \A i \in 1..NumHashes : BloomHashes(item)[i] \in b.bits
BloomClear(b) == [bits |-> {}, count |-> 0]

\* ------------------------------------------------------------ TrieStorage
TrieStorageInit == [trie |-> PatriciaTrieInit, bloom |-> BloomInit, count |-> 0]

TrieStore(s, q, component) ==
    LET ns == q.namespace
        local == q.local_name
        found == TrieGet(s.trie, ns)
        ins == IF found = None
               THEN TrieSetItem(s.trie, ns, <<>>)
               ELSE [st |-> s.trie, raised |-> "no"]
        ns_dict == IF found = None THEN <<>> ELSE found[1]
    IN IF ins.raised # "no"
       THEN [st |-> s, raised |-> ins.raised]
       ELSE IF DictHas(ns_dict, local)
       THEN [st |-> [s EXCEPT !.trie = ins.st],
             raised |-> "ValueError: already registered"]
       ELSE [st |-> [trie |-> TrieMutateBucket(ins.st, ns,
                                               DictSet(ns_dict, local, component)),
                     bloom |-> BloomAdd(s.bloom, expanded(q)),
                     count |-> s.count + 1],
             raised |-> "no"]

TrieLookup(s, q) ==
    IF ~BloomContains(s.bloom, expanded(q)) THEN None
    ELSE LET ns_dict == TrieGet(s.trie, q.namespace)
         IN IF ns_dict = None THEN None
            ELSE IF DictHas(ns_dict[1], q.local_name)
                 THEN Some(DictGet(ns_dict[1], q.local_name))
                 ELSE None

\* faulty variant: remove forgets to decrement the item count
TrieRemove_KeepCount(s, q) ==
    LET ns_dict == TrieGet(s.trie, q.namespace)
    IN IF ns_dict = None THEN [st |-> s, ret |-> FALSE]
       ELSE IF ~DictHas(ns_dict[1], q.local_name) THEN [st |-> s, ret |-> FALSE]
       ELSE [st |-> [s EXCEPT
                       !.trie = TrieMutateBucket(s.trie, q.namespace,
                                                 DictDel(ns_dict[1], q.local_name))],
             ret |-> TRUE]

TrieRemove(s, q) ==
    LET ns_dict == TrieGet(s.trie, q.namespace)
    IN IF ns_dict = None THEN [st |-> s, ret |-> FALSE]
       ELSE IF ~DictHas(ns_dict[1], q.local_name) THEN [st |-> s, ret |-> FALSE]
       ELSE [st |-> [s EXCEPT
                       !.trie = TrieMutateBucket(s.trie, q.namespace,
                                                 DictDel(ns_dict[1], q.local_name)),
                       !.count = s.count - 1],
             ret |-> TRUE]

TrieContains(s, q) ==
    IF ~BloomContains(s.bloom, expanded(q)) THEN FALSE
    ELSE LET ns_dict == TrieGet(s.trie, q.namespace)
         IN IF ns_dict = None THEN FALSE
            ELSE DictHas(ns_dict[1], q.local_name)

TrieLen(s) == s.count

TrieByNamespace(s, namespace) ==
    LET ns_dict == TrieGet(s.trie, namespace)
    IN IF ns_dict = None THEN <<>> ELSE DictValues(ns_dict[1])

TrieByNamespacePrefix(s, prefix) ==
    LET matching_ns == TrieKeysWithPrefix(s.trie, prefix)
    IN Flatten([i \in 1..Len(matching_ns) |->
            LET ns_dict == TrieGet(s.trie, matching_ns[i])
            IN IF ns_dict # None /\ ns_dict[1] # <<>>
               THEN DictValues(ns_dict[1]) ELSE <<>>])

TrieNamespaces(s) == TrieKeysWithPrefix(s.trie, <<>>)
TrieAllItems(s) == TrieByNamespacePrefix(s, <<>>)
\* faulty variant: the count and the filter are reset but the trie is kept
TrieClear_KeepsTrie(s) == [trie |-> s.trie, bloom |-> BloomClear(s.bloom), count |-> 0]

TrieClear(s) == [trie |-> PatriciaTrieInit, bloom |-> BloomClear(s.bloom), count |-> 0]

\* ------------------------------------------------------ ComponentRegistry
\* _process_callbacks: pop the pending list of q and invoke each callback,
\* in list order, with the component.  `invoked` is the sequence of calls.
\* faulty variant: the pending callbacks are fired newest first
ProcessCallbacks_Reversed(callbacks, q, component) ==
    LET cbs == IF DictHas(callbacks, q) THEN DictGet(callbacks, q) ELSE <<>>
    IN [callbacks |-> DictDel(callbacks, q),
        invoked |-> [i \in 1..Len(cbs) |->
                        [cb |-> cbs[Len(cbs) + 1 - i], component |-> component]]]

ProcessCallbacks(callbacks, q, component) ==
    LET cbs == IF DictHas(callbacks, q) THEN DictGet(callbacks, q) ELSE <<>>
    IN [callbacks |-> DictDel(callbacks, q),
        invoked |-> [i \in 1..Len(cbs) |-> [cb |-> cbs[i], component |-> component]]]

\* register: storage.store, then _process_callbacks unless store raised.
\* faulty variant: register stores the component but never drains the callbacks
RegistryRegister_NoDrain(stored, callbacks, component) ==
    [callbacks |-> callbacks, invoked |-> <<>>, raised |-> stored.raised]

RegistryRegister(stored, callbacks, component) ==
    IF stored.raised # "no"
    THEN [callbacks |-> callbacks, invoked |-> <<>>, raised |-> stored.raised]
    ELSE LET p == ProcessCallbacks(callbacks, qname(component), component)
         IN [callbacks |-> p.callbacks, invoked |-> p.invoked, raised |-> "no"]

\* defer_resolution, given the result of storage.lookup(q).
\* faulty variant: the early return is missing, so a callback invoked at once is
\* queued as well
RegistryDeferResolution_NoEarlyReturn(found, callbacks, q, callback) ==
    LET c1 == IF DictHas(callbacks, q) THEN callbacks ELSE DictSet(callbacks, q, <<>>)
    IN [callbacks |-> DictSet(c1, q, Append(DictGet(c1, q), callback)),
        invoked |-> IF found # None
                    THEN <<[cb |-> callback, component |-> found[1]]>>
                    ELSE <<>>,
        ret |-> found # None]

RegistryDeferResolution(found, callbacks, q, callback) ==
    IF found # None
    THEN [callbacks |-> callbacks,
          invoked |-> <<[cb |-> callback, component |-> found[1]]>>,
          ret |-> TRUE]
    ELSE LET c1 == IF DictHas(callbacks, q) THEN callbacks ELSE DictSet(callbacks, q, <<>>)
         IN [callbacks |-> DictSet(c1, q, Append(DictGet(c1, q), callback)),
             invoked |-> <<>>,
             ret |-> FALSE]

PendingQNames(callbacks) == DictKeys(callbacks)
RECURSIVE SumLens(_)
SumLens(d) == IF d = <<>> THEN 0 ELSE Len(Head(d)[2]) + SumLens(Tail(d))
PendingCount(callbacks) == SumLens(callbacks)

\* ------------------------------------------------------------------ state
VARIABLES
    ds,        \* the DictStorage (storage of the exact-match registry)
    ts,        \* the TrieStorage (storage of the default registry)
    cbD,       \* _callbacks of the registry over ds
    cbT,       \* _callbacks of the registry over ts
    firedD,    \* callback invocations made by the registry over ds, in order
    firedT,    \* callback invocations made by the registry over ts, in order
    queuedD,   \* history: <<callback, qname>> of every defer that queued (ds)
    queuedT,   \* history: <<callback, qname>> of every defer that queued (ts)
    nextCb,    \* identity of the next callback object
    removed,   \* history: qnames that remove() took out of the trie store
    regOkD,    \* history: components whose register() returned normally (ds)
    regOkT,    \* history: components whose register() returned normally (ts)
    last,      \* the last operation, its arguments and its outcome
    nops       \* number of operations performed

regVars == <<ds, ts, cbD, cbT, firedD, firedT, queuedD, queuedT, nextCb, removed,
             regOkD, regOkT, last, nops>>

NoOp == [op |-> "init", comp |-> None, qn |-> None, cb |-> 0,
         raisedD |-> "no", raisedT |-> "no", retD |-> FALSE, retT |-> FALSE,
         hadD |-> FALSE, hadT |-> FALSE]

RegisteredIn(regOk, q) == \E c \in regOk : qname(c) = q

RegInit ==
    /\ ds = DictStorageInit
    /\ ts = TrieStorageInit
    /\ cbD = <<>>
    /\ cbT = <<>>
    /\ firedD = <<>>
    /\ firedT = <<>>
    /\ queuedD = <<>>
    /\ queuedT = <<>>
    /\ nextCb = 1
    /\ removed = {}
    /\ regOkD = {}
    /\ regOkT = {}
    /\ last = NoOp
    /\ nops = 0

\* registry.register(c) on both registries
Register(c) ==
    LET q == qname(c)
        sD == DictStore(ds, q, c)
        sT == TrieStore(ts, q, c)
        rD == RegistryRegister(sD, cbD, c)
        rT == RegistryRegister(sT, cbT, c)
    IN /\ nops < MaxOps
       /\ ds' = sD.st
       /\ ts' = sT.st
       /\ cbD' = rD.callbacks
       /\ cbT' = rT.callbacks
       /\ firedD' = firedD \o rD.invoked
       /\ firedT' = firedT \o rT.invoked
       /\ last' = [NoOp EXCEPT !.op = "register", !.comp = Some(c), !.qn = Some(q),
                               !.raisedD = rD.raised, !.raisedT = rT.raised,
                               !.hadD = RegisteredIn(regOkD, q),
                               !.hadT = RegisteredIn(regOkT, q)]
       /\ regOkD' = IF rD.raised = "no" THEN regOkD \cup {c} ELSE regOkD
       /\ regOkT' = IF rT.raised = "no" THEN regOkT \cup {c} ELSE regOkT
       /\ nops' = nops + 1
       /\ UNCHANGED <<queuedD, queuedT, nextCb, removed>>

\* registry.defer_resolution(q, callback) on both registries, with a fresh
\* callback object
DeferResolution(q) ==
    LET rD == RegistryDeferResolution(DictLookup(ds, q), cbD, q, nextCb)
        rT == RegistryDeferResolution(TrieLookup(ts, q), cbT, q, nextCb)
    IN /\ nops < MaxOps
       /\ cbD' = rD.callbacks
       /\ cbT' = rT.callbacks
       /\ firedD' = firedD \o rD.invoked
       /\ firedT' = firedT \o rT.invoked
       /\ queuedD' = IF rD.ret THEN queuedD ELSE Append(queuedD, <<nextCb, q>>)
       /\ queuedT' = IF rT.ret THEN queuedT ELSE Append(queuedT, <<nextCb, q>>)
       /\ nextCb' = nextCb + 1
       /\ last' = [NoOp EXCEPT !.op = "defer", !.qn = Some(q), !.cb = nextCb,
                               !.retD = rD.ret, !.retT = rT.ret,
                               !.hadD = RegisteredIn(regOkD, q),
                               !.hadT = RegisteredIn(regOkT, q)]
       /\ nops' = nops + 1
       /\ UNCHANGED <<ds, ts, removed, regOkD, regOkT>>

\* storage.store(c.qname, c) on both storages
Store(c) ==
    LET q == qname(c)
        sD == DictStore(ds, q, c)
        sT == TrieStore(ts, q, c)
    IN /\ nops < MaxOps
       /\ ds' = sD.st
       /\ ts' = sT.st
       /\ last' = [NoOp EXCEPT !.op = "store", !.comp = Some(c), !.qn = Some(q),
                               !.raisedD = sD.raised, !.raisedT = sT.raised]
       /\ nops' = nops + 1
       /\ UNCHANGED <<cbD, cbT, firedD, firedT, queuedD, queuedT, nextCb, removed,
                      regOkD, regOkT>>

\* storage.remove(q) on both storages
Remove(q) ==
    LET rD == DictRemove(ds, q)
        rT == TrieRemove(ts, q)
    IN /\ nops < MaxOps
       /\ ds' = rD.st
       /\ ts' = rT.st
       /\ removed' = IF rT.ret THEN removed \cup {q} ELSE removed
       /\ last' = [NoOp EXCEPT !.op = "remove", !.qn = Some(q),
                               !.retD = rD.ret, !.retT = rT.ret]
       /\ nops' = nops + 1
       /\ UNCHANGED <<cbD, cbT, firedD, firedT, queuedD, queuedT, nextCb,
                      regOkD, regOkT>>

\* storage.clear() on both storages
Clear ==
    /\ nops < MaxOps
    /\ ds' = DictClear(ds)
    /\ ts' = TrieClear(ts)
    /\ last' = [NoOp EXCEPT !.op = "clear"]
    /\ nops' = nops + 1
    /\ UNCHANGED <<cbD, cbT, firedD, firedT, queuedD, queuedT, nextCb, removed,
                   regOkD, regOkT>>

\* ------------------------------------------------------------ parse_qname
IsSpace(ch) == ch \in {" ", "\t", "\n"}
RECURSIVE LStrip(_)
LStrip(t) == IF t # <<>> /\ IsSpace(Head(t)) THEN LStrip(Tail(t)) ELSE t
RECURSIVE RStrip(_)
RStrip(t) == IF t # <<>> /\ IsSpace(t[Len(t)]) THEN RStrip(Take(t, Len(t) - 1)) ELSE t
Strip(t) == RStrip(LStrip(t))
\* str.find: 1-based position of the first occurrence of ch, 0 when absent
RECURSIVE FindFrom(_, _, _)
FindFrom(t, ch, i) ==
    IF i > Len(t) THEN 0 ELSE IF t[i] = ch THEN i ELSE FindFrom(t, ch, i + 1)
Find(t, ch) == FindFrom(t, ch, 1)

QNameError(msg) == [ok |-> FALSE, qn |-> QName(<<>>, <<>>), err |-> msg]
QNameOk(q) == [ok |-> TRUE, qn |-> q, err |-> "no"]

\* _CLARK_PATTERN = ^\{([^}]*)\}(.+)$ : "{", the text up to the first "}",
\* then a non-empty rest without a line break
ClarkMatches(t) ==
    /\ t # <<>>
    /\ t[1] = "{"
    /\ Find(t, "}") # 0
    /\ Find(t, "}") < Len(t)
    /\ \A i \in (Find(t, "}") + 1)..Len(t) : t[i] # "\n"

\* parse_qname(text, resolver=..., default_namespace=...); resolver is a dict
parse_qname(text0, resolver, default_namespace) ==
    IF text0 = <<>> \/ Strip(text0) = <<>>
    THEN QNameError("QName text cannot be empty")
    ELSE
    LET text == Strip(text0) IN
    IF ClarkMatches(text)
    THEN QNameOk(QName(SubSeq(text, 2, Find(text, "}") - 1),
                       Drop(text, Find(text, "}"))))
    ELSE IF Find(text, ":") # 0
    THEN LET prefix == Take(text, Find(text, ":") - 1)
             local_name == Drop(text, Find(text, ":"))
         IN IF prefix = <<>> THEN QNameError("Empty prefix in QName")
            ELSE IF local_name = <<>> THEN QNameError("Empty local name in QName")
            ELSE IF ~DictHas(resolver, prefix)
                 THEN QNameError("Undefined namespace prefix")
            ELSE QNameOk(QName(DictGet(resolver, prefix), local_name))
    ELSE QNameOk(QName(default_namespace, text))

\* ----------------------------------------------------------- ParseContext
XML_NAMESPACE == <<"http://www.w3.org/XML/1998/namespace">>
XMLNS_NAMESPACE == <<"http://www.w3.org/2000/xmlns/">>
XSD_NAMESPACE == <<"http://www.w3.org/2001/XMLSchema">>

BuiltinNamespaces ==
    << << <<"x", "m", "l">>, XML_NAMESPACE >>,
       << <<"x", "m", "l", "n", "s">>, XMLNS_NAMESPACE >>,
       << <<"x", "s">>, XSD_NAMESPACE >>,
       << <<"x", "s", "d">>, XSD_NAMESPACE >> >>

\* ParseContext(schema_location=..., target_namespace=...)
\* faulty variant: the new context starts with a diagnostic already recorded
NewParseContext_WithDiagnostic(target_namespace) ==
    [namespace_stack |-> <<BuiltinNamespaces>>,
     current_path |-> <<>>,
     target_namespace |-> target_namespace,
     element_form_default |-> "unqualified",
     attribute_form_default |-> "unqualified",
     errors |-> <<[message |-> "Handler error", line |-> 1, element |-> None]>>]

NewParseContext(target_namespace) ==
    [namespace_stack |-> <<BuiltinNamespaces>>,
     current_path |-> <<>>,
     target_namespace |-> target_namespace,
     element_form_default |-> "unqualified",
     attribute_form_default |-> "unqualified",
     errors |-> <<>>]

RECURSIVE DictUpdate(_, _)
DictUpdate(d, other) ==
    IF other = <<>> THEN d
    ELSE DictUpdate(DictSet(d, Head(other)[1], Head(other)[2]), Tail(other))

\* faulty variant: a scope is pushed only for an element that has bindings
push_namespace_scope_SkipEmpty(ctx, mappings) ==
    IF mappings = <<>> THEN ctx
    ELSE [ctx EXCEPT !.namespace_stack = Append(@, DictUpdate(<<>>, mappings))]

push_namespace_scope(ctx, mappings) ==
    [ctx EXCEPT !.namespace_stack = Append(@, DictUpdate(<<>>, mappings))]

\* faulty variant: the scope of a closed element is left on the stack
pop_namespace_scope_Keep(ctx) == [ctx |-> ctx, raised |-> "no"]

\* faulty variant: only an empty stack is refused, so the root scope can go
pop_namespace_scope_PopsRoot(ctx) ==
    IF Len(ctx.namespace_stack) = 0
    THEN [ctx |-> ctx, raised |-> "ParseError: Cannot pop root namespace scope"]
    ELSE [ctx |-> [ctx EXCEPT !.namespace_stack = Take(@, Len(@) - 1)],
          raised |-> "no"]

pop_namespace_scope(ctx) ==
    IF Len(ctx.namespace_stack) <= 1
    THEN [ctx |-> ctx, raised |-> "ParseError: Cannot pop root namespace scope"]
    ELSE [ctx |-> [ctx EXCEPT !.namespace_stack = Take(@, Len(@) - 1)],
          raised |-> "no"]

RECURSIVE ResolveFrom(_, _, _)
ResolveFrom(stack, i, prefix) ==
    IF i = 0 THEN None
    ELSE IF DictHas(stack[i], prefix) THEN Some(DictGet(stack[i], prefix))
    ELSE ResolveFrom(stack, i - 1, prefix)
\* faulty variant: the scopes are searched from the root scope inwards
resolve_prefix_OutermostFirst(ctx, prefix) ==
    LET binders == {i \in 1..Len(ctx.namespace_stack) :
                       DictHas(ctx.namespace_stack[i], prefix)}
    IN IF binders = {} THEN None
       ELSE LET low == CHOOSE i \in binders : \A j \in binders : i <= j
            IN Some(DictGet(ctx.namespace_stack[low], prefix))

resolve_prefix(ctx, prefix) ==
    ResolveFrom(ctx.namespace_stack, Len(ctx.namespace_stack), prefix)

RECURSIVE BuildResolver(_, _, _)
BuildResolver(stack, i, acc) ==
    IF i > Len(stack) THEN acc
    ELSE BuildResolver(stack, i + 1, DictUpdate(acc, stack[i]))
\* faulty variant: only the innermost scope is used to resolve prefixes
resolve_qname_TopScopeOnly(ctx, text, default_namespace) ==
    LET dn == IF default_namespace = None
              THEN OrEmpty(ctx.target_namespace)
              ELSE default_namespace[1]
    IN parse_qname(text, ctx.namespace_stack[Len(ctx.namespace_stack)], dn)

resolve_qname(ctx, text, default_namespace) ==
    LET dn == IF default_namespace = None
              THEN OrEmpty(ctx.target_namespace)
              ELSE default_namespace[1]
    IN parse_qname(text, BuildResolver(ctx.namespace_stack, 1, <<>>), dn)

push_element(ctx, namespace, local_name) ==
    [ctx EXCEPT !.current_path = Append(@, <<namespace, local_name>>)]
pop_element(ctx) ==
    IF ctx.current_path = <<>> THEN ctx
    ELSE [ctx EXCEPT !.current_path = Take(@, Len(@) - 1)]
current_qname(ctx) ==
    IF ctx.current_path = <<>> THEN None
    ELSE Some(QName(ctx.current_path[Len(ctx.current_path)][1],
                    ctx.current_path[Len(ctx.current_path)][2]))
\* faulty variant: the newest error is put in front of the list
add_error_Prepend(ctx, message, line) ==
    [ctx EXCEPT !.errors = <<[message |-> message, line |-> line,
        element |-> IF current_qname(ctx) = None THEN None
                    ELSE Some(expanded(current_qname(ctx)[1]))]>> \o @]

add_error(ctx, message, line) ==
    [ctx EXCEPT !.errors = Append(@,
        [message |-> message, line |-> line,
         element |-> IF current_qname(ctx) = None THEN None
                     ELSE Some(expanded(current_qname(ctx)[1]))])]
context_depth(ctx) == Len(ctx.current_path)

\* ------------------------------------------------------------ EventBuffer
EventBufferMaxlen == 3
\* EventBuffer(maxlen)
EventBuffer(maxlen) == [buffer |-> <<>>, current |-> None, maxlen |-> maxlen]
NewEventBuffer == EventBuffer(EventBufferMaxlen)
\* deque(maxlen).append: drops the leftmost element when full
\* faulty variant: a full queue refuses the new event and keeps the oldest
BufferPush_DropNewest(b, event) ==
    [b EXCEPT !.buffer = IF Len(@) >= b.maxlen THEN @ ELSE Append(@, event)]

BufferPush(b, event) ==
    [b EXCEPT !.buffer = IF b.maxlen = 0
                         THEN @
                         ELSE IF Len(@) >= b.maxlen
                              THEN Append(Tail(@), event)
                              ELSE Append(@, event)]

\* consume(): the new buffer and the returned event
\* faulty variant: the newest queued event is taken instead of the oldest
BufferConsume_PopRight(b) ==
    IF b.buffer = <<>>
    THEN [buf |-> [b EXCEPT !.current = None], ret |-> None]
    ELSE [buf |-> [b EXCEPT !.current = Some(b.buffer[Len(b.buffer)]),
                            !.buffer = Take(b.buffer, Len(b.buffer) - 1)],
          ret |-> Some(b.buffer[Len(b.buffer)])]

BufferConsume(b) ==
    IF b.buffer = <<>>
    THEN [buf |-> [b EXCEPT !.current = None], ret |-> None]
    ELSE [buf |-> [b EXCEPT !.current = Some(Head(b.buffer)), !.buffer = Tail(b.buffer)],
          ret |-> Some(Head(b.buffer))]

\* faulty variant: no lower bound, so the deque is indexed from its right end
BufferLookahead_NoLowerBound(b, n) ==
    IF n > Len(b.buffer) \/ n - 1 < 0 - Len(b.buffer)
    THEN None
    ELSE IF n >= 1 THEN Some(b.buffer[n]) ELSE Some(b.buffer[Len(b.buffer) + n])

BufferLookahead(b, n) ==
    IF n < 1 \/ n > Len(b.buffer) THEN None ELSE Some(b.buffer[n])

BufferCanLookahead(b, n) == 1 <= n /\ n <= Len(b.buffer)
BufferClear(b) == [b EXCEPT !.buffer = <<>>, !.current = None]

\* ------------------------------------------- ParseContext used directly
\* push_namespace(prefix, uri): bind in the current (top) scope
push_namespace(c, prefix, uri) ==
    LET stack == IF c.namespace_stack = <<>> THEN << <<>> >> ELSE c.namespace_stack
    IN [c EXCEPT !.namespace_stack =
           [stack EXCEPT ![Len(stack)] = DictSet(@, prefix, uri)]]

MaxCtxOps == 3
CtxTargetNamespaces == {None, Some(<<"t">>)}
ScopeUniverse ==
    { <<>>,
      << << <<"p">>, <<"a">> >> >>,
      << << <<"p">>, <<"b">> >>, << <<"x", "s">>, <<"b">> >> >> }
BindingUniverse == { << <<"p">>, <<"c">> >>, << <<"q">>, <<"a">> >> }
CtxPrefixes == {<<"p">>, <<"q">>, <<"x", "s">>, <<"z">>}
DefaultNamespaces == {None, Some(<<>>), Some(<<"d">>)}
\* QName texts: prefixed, bare, bracketed, malformed and blank, each also
\* with surrounding whitespace
TextBodies ==
    {pfx \o <<":", "l">> : pfx \in CtxPrefixes}
        \cup {<<"l">>, <<"s">>,
              <<"{", "u", "}", "l">>, <<"{", "}", "l">>, <<"{", "a", "}", "e">>,
              <<"p", ":">>, <<":", "l">>, <<>>}
TextUniverse == TextBodies \cup {<<" ">> \o b \o <<"\n">> : b \in TextBodies}

VARIABLES
    api_ctx,        \* a ParseContext driven through its public methods
    clast,      \* the last call on api_ctx and what it returned or raised
    scopeHist,  \* history: for each open pushed scope, what every prefix
                \* resolved to just before its push_namespace_scope
    cops        \* number of calls made on api_ctx

apiVars == <<api_ctx, clast, scopeHist, cops>>

NoCall == [op |-> "init", text |-> <<>>, dn |-> None, prefix |-> <<>>,
           res |-> QNameError("no"), pres |-> None, raised |-> "no",
           before |-> <<>>, stack |-> <<>>]

\* what every prefix resolves to in c
Resolution(c) == [pfx \in CtxPrefixes |-> resolve_prefix(c, pfx)]

ApiInit ==
    /\ api_ctx = NewParseContext(None)
    /\ clast = NoCall
    /\ scopeHist = <<>>
    /\ cops = 0

\* ParseContext(target_namespace=...)
ApiInitConfigured ==
    /\ api_ctx \in {NewParseContext(tns) : tns \in CtxTargetNamespaces}
    /\ clast = NoCall
    /\ scopeHist = <<>>
    /\ cops = 0

PushNamespaceScope(mappings) ==
    /\ cops < MaxCtxOps
    /\ cops' = cops + 1
    /\ api_ctx' = push_namespace_scope(api_ctx, mappings)
    /\ scopeHist' = Append(scopeHist, Resolution(api_ctx))
    /\ clast' = [NoCall EXCEPT !.op = "push_namespace_scope",
                               !.stack = api_ctx.namespace_stack]

PopNamespaceScope ==
    LET r == pop_namespace_scope(api_ctx)
    IN /\ cops < MaxCtxOps
       /\ cops' = cops + 1
       /\ api_ctx' = r.ctx
       /\ scopeHist' = IF r.raised = "no"
                       THEN Take(scopeHist, Len(scopeHist) - 1)
                       ELSE scopeHist
       /\ clast' = [NoCall EXCEPT
                      !.op = "pop_namespace_scope",
                      !.raised = r.raised,
                      !.stack = api_ctx.namespace_stack,
                      !.before = IF r.raised = "no" /\ scopeHist # <<>>
                                 THEN <<scopeHist[Len(scopeHist)]>>
                                 ELSE <<>>]

PushNamespace(prefix, uri) ==
    /\ cops < MaxCtxOps
    /\ cops' = cops + 1
    /\ api_ctx' = push_namespace(api_ctx, prefix, uri)
    /\ clast' = [NoCall EXCEPT !.op = "push_namespace", !.prefix = prefix,
                               !.stack = api_ctx.namespace_stack]
    /\ UNCHANGED scopeHist

ResolvePrefix(prefix) ==
    /\ cops < MaxCtxOps
    /\ cops' = cops + 1
    /\ clast' = [NoCall EXCEPT !.op = "resolve_prefix", !.prefix = prefix,
                               !.pres = resolve_prefix(api_ctx, prefix),
                               !.stack = api_ctx.namespace_stack]
    /\ UNCHANGED <<api_ctx, scopeHist>>

ResolveQName(text, dn) ==
    /\ cops < MaxCtxOps
    /\ cops' = cops + 1
    /\ clast' = [NoCall EXCEPT !.op = "resolve_qname", !.text = text, !.dn = dn,
                               !.res = resolve_qname(api_ctx, text, dn),
                               !.stack = api_ctx.namespace_stack]
    /\ UNCHANGED <<api_ctx, scopeHist>>

\* ---------------------------------------------------------- TypeReference
MaxRefOps == 2
RefComponents ==
    {Component(i, Some(<<"x">>), Some(<<"a">>)) : i \in ComponentIds}
        \cup {Component(1, Some(<<"x">>), None)}
RefQNames == {qname(c) : c \in RefComponents}
\* the registries a reference can be resolved against: the registry over the
\* trie store, the one over the dict store, and a new empty registry
RegistryChoices == {"trie", "dict", "new"}

\* TypeReference(ref_qname)
TypeReference(q) == [ref_qname |-> q, resolved |-> None]

\* faulty variant: the component found is returned but not cached
resolve_NoCache(ref, found) ==
    IF ref.resolved # None
    THEN [ref |-> ref, ret |-> ref.resolved, raised |-> "no", qname |-> <<>>]
    ELSE IF found = None
    THEN [ref |-> ref, ret |-> None,
          raised |-> "ResolutionError: Cannot resolve type reference",
          qname |-> expanded(ref.ref_qname)]
    ELSE [ref |-> ref, ret |-> found, raised |-> "no", qname |-> <<>>]

\* TypeReference.resolve(registry); found = registry.lookup(self.ref_qname),
\* which is evaluated only when nothing is cached
resolve(ref, found) ==
    IF ref.resolved # None
    THEN [ref |-> ref, ret |-> ref.resolved, raised |-> "no", qname |-> <<>>]
    ELSE IF found = None
    THEN [ref |-> ref, ret |-> None,
          raised |-> "ResolutionError: Cannot resolve type reference",
          qname |-> expanded(ref.ref_qname)]
    ELSE [ref |-> [ref EXCEPT !.resolved = found], ret |-> found,
          raised |-> "no", qname |-> <<>>]

VARIABLES
    refs,    \* one TypeReference per target name
    rlast,   \* the last resolve() call and what it returned or raised
    rops     \* number of resolve() calls made

refVars == <<refs, rlast, rops>>

NoResolve == [op |-> "init", qn |-> QName(<<>>, <<>>), registry |-> "none",
              found |-> None, was |-> None, ret |-> None, raised |-> "no",
              qname |-> <<>>]

RefInit ==
    /\ refs = [q \in RefQNames |-> TypeReference(q)]
    /\ rlast = NoResolve
    /\ rops = 0

\* registry.lookup(q) on the chosen registry
RegistryLookup(choice, q) ==
    CASE choice = "trie" -> TrieLookup(ts, q)
      [] choice = "dict" -> DictLookup(ds, q)
      [] OTHER -> TrieLookup(TrieStorageInit, q)

\* refs[q].resolve(registry)
Resolve(q, choice) ==
    LET found == RegistryLookup(choice, q)
        r == resolve(refs[q], found)
    IN /\ rops < MaxRefOps
       /\ rops' = rops + 1
       /\ refs' = [refs EXCEPT ![q] = r.ref]
       /\ rlast' = [op |-> "resolve", qn |-> q, registry |-> choice,
                    found |-> found, was |-> refs[q].resolved, ret |-> r.ret,
                    raised |-> r.raised, qname |-> r.qname]

\* ---------------------------------------------------- Component.freeze
MaxCompOps == 3
ObjectIds == {1, 2, 3}

\* ConcreteComponent(name=..., child=...): a Component subclass with one
\* component-typed field; None child for a leaf
ConcreteComponent(name, child) ==
    [_frozen |-> FALSE, name |-> name, target_namespace |-> None, child |-> child]

is_frozen(heap, o) == heap[o]._frozen

\* o.freeze(), with _freeze_children() freezing the child if present
RECURSIVE freeze(_, _)
freeze(heap, o) ==
    IF is_frozen(heap, o)
    THEN heap
    ELSE LET frozen == [heap EXCEPT ![o]._frozen = TRUE]
         IN IF frozen[o].child = None
            THEN frozen
            ELSE freeze(frozen, frozen[o].child[1])

\* the components whose _freeze_children() hook runs during o.freeze(), in
\* call order
RECURSIVE freeze_children_runs(_, _)
freeze_children_runs(heap, o) ==
    IF is_frozen(heap, o)
    THEN <<>>
    ELSE LET frozen == [heap EXCEPT ![o]._frozen = TRUE]
         IN <<o>> \o (IF frozen[o].child = None
                      THEN <<>>
                      ELSE freeze_children_runs(frozen, frozen[o].child[1]))

\* o.<name> = value
setattr(heap, o, name, value) ==
    IF name = "_frozen" \/ ~is_frozen(heap, o)
    THEN [heap |-> [heap EXCEPT ![o][name] = value], raised |-> "no"]
    ELSE [heap |-> heap, raised |-> "FrozenError: Cannot modify frozen component"]

\* the assignments a caller makes: attribute name and new value
AttributeWrites ==
    {<<"name", Some(<<"m">>)>>, <<"target_namespace", Some(<<"u">>)>>,
     <<"_frozen", FALSE>>, <<"_frozen", TRUE>>}
        \cup {<<"child", c>> : c \in {None} \cup {Some(o) : o \in ObjectIds}}

VARIABLES
    comps,       \* the component objects, by identity
    everFrozen,  \* the objects on which freeze() has returned
    mlast,       \* the last operation on a component and its outcome
    mops         \* number of operations made

compVars == <<comps, everFrozen, mlast, mops>>

NoWrite == [op |-> "init", target |-> 0, name |-> "", raised |-> "no"]

CompInit ==
    /\ comps = [o \in ObjectIds |-> ConcreteComponent(Some(<<"n">>), None)]
    /\ everFrozen = {}
    /\ mlast = NoWrite
    /\ mops = 0

\* components built bottom-up, each given an already built child or none
CompInitConfigured ==
    /\ \E c1 \in {None, Some(2), Some(3)}, c2 \in {None, Some(3)} :
          comps = [o \in ObjectIds |->
                      ConcreteComponent(Some(<<"n">>),
                                        CASE o = 1 -> c1 [] o = 2 -> c2 [] OTHER -> None)]
    /\ everFrozen = {}
    /\ mlast = NoWrite
    /\ mops = 0

Freeze(o) ==
    /\ mops < MaxCompOps
    /\ mops' = mops + 1
    /\ comps' = freeze(comps, o)
    /\ everFrozen' = everFrozen \cup {o}
    /\ mlast' = [op |-> "freeze", target |-> o, name |-> "", raised |-> "no"]

SetAttr(o, name, value) ==
    LET r == setattr(comps, o, name, value)
    IN /\ mops < MaxCompOps
       /\ mops' = mops + 1
       /\ comps' = r.heap
       /\ everFrozen' = everFrozen
       /\ mlast' = [op |-> "setattr", target |-> o, name |-> name, raised |-> r.raised]

\* --------------------------------------------- EventBuffer used directly
MaxBufOps == 5
CapacityUniverse == {0, 1, 2, EventBufferMaxlen}
LookaheadArgs == -2..(EventBufferMaxlen + 1)

VARIABLES
    eb,      \* the EventBuffer
    blast,   \* the last call on it: argument, result, the buffer before it
    pushed,  \* number of events pushed so far; event i is the i-th pushed
    bops     \* number of calls made

bufVars == <<eb, blast, pushed, bops>>

NoBufferCall == [op |-> "init", n |-> 0, ret |-> None, before |-> NewEventBuffer]

BufInit ==
    /\ eb = NewEventBuffer
    /\ blast = NoBufferCall
    /\ pushed = 0
    /\ bops = 0

BufInitConfigured ==
    /\ \E k \in CapacityUniverse : eb = EventBuffer(k)
    /\ blast = NoBufferCall
    /\ pushed = 0
    /\ bops = 0

Push ==
    /\ bops < MaxBufOps
    /\ bops' = bops + 1
    /\ pushed' = pushed + 1
    /\ eb' = BufferPush(eb, pushed + 1)
    /\ blast' = [op |-> "push", n |-> pushed + 1, ret |-> None, before |-> eb]

Consume ==
    LET r == BufferConsume(eb)
    IN /\ bops < MaxBufOps
       /\ bops' = bops + 1
       /\ eb' = r.buf
       /\ blast' = [op |-> "consume", n |-> 0, ret |-> r.ret, before |-> eb]
       /\ UNCHANGED pushed

Lookahead(n) ==
    /\ bops < MaxBufOps
    /\ bops' = bops + 1
    /\ blast' = [op |-> "lookahead", n |-> n, ret |-> BufferLookahead(eb, n), before |-> eb]
    /\ UNCHANGED <<eb, pushed>>

CanLookahead(n) ==
    /\ bops < MaxBufOps
    /\ bops' = bops + 1
    /\ blast' = [op |-> "can_lookahead", n |-> n, ret |-> BufferCanLookahead(eb, n),
                 before |-> eb]
    /\ UNCHANGED <<eb, pushed>>

ClearBuffer ==
    /\ bops < MaxBufOps
    /\ bops' = bops + 1
    /\ eb' = BufferClear(eb)
    /\ blast' = [op |-> "clear", n |-> 0, ret |-> None, before |-> eb]
    /\ UNCHANGED pushed

\* ----------------------------------------------------- ParseContext.clone
MaxForkOps == 3

\* clone(): the new context and the number of scope dicts, counted from the
\* bottom of the stack, that are the same objects in both contexts.  The
\* stack is rebuilt with dict(scope) for every scope, so none is shared.
\* faulty variant: the list is copied but its scope dicts are not
clone_SharedScopes(ctx) ==
    [ctx |-> [NewParseContext(ctx.target_namespace) EXCEPT
                 !.namespace_stack = ctx.namespace_stack,
                 !.current_path = ctx.current_path,
                 !.element_form_default = ctx.element_form_default,
                 !.attribute_form_default = ctx.attribute_form_default],
     same_scopes |-> Len(ctx.namespace_stack)]

clone(ctx) ==
    [ctx |-> [NewParseContext(ctx.target_namespace) EXCEPT
                 !.namespace_stack =
                     [i \in 1..Len(ctx.namespace_stack) |-> ctx.namespace_stack[i]],
                 !.current_path = ctx.current_path,
                 !.element_form_default = ctx.element_form_default,
                 !.attribute_form_default = ctx.attribute_form_default],
     same_scopes |-> 0]

\* the calls made on a context: method and arguments
ForkCalls ==
    {<<"push_namespace_scope", <<>>, <<>>>>,
     <<"push_namespace_scope", << << <<"p">>, <<"c">> >> >>, <<>>>>,
     <<"pop_namespace_scope", <<>>, <<>>>>,
     <<"push_namespace", <<"q">>, <<"a">>>>,
     <<"push_element", <<"a">>, <<"e">>>>,
     <<"pop_element", <<>>, <<>>>>,
     <<"add_error", "m", <<>>>>,
     <<"element_form_default", "qualified", <<>>>>,
     <<"attribute_form_default", "qualified", <<>>>>}

\* one call on context c
ForkCall(c, call) ==
    CASE call[1] = "push_namespace_scope" -> push_namespace_scope(c, call[2])
      [] call[1] = "pop_namespace_scope" -> pop_namespace_scope(c).ctx
      [] call[1] = "push_namespace" -> push_namespace(c, call[2], call[3])
      [] call[1] = "push_element" -> push_element(c, call[2], call[3])
      [] call[1] = "pop_element" -> pop_element(c)
      [] call[1] = "add_error" -> add_error(c, call[2], None)
      [] call[1] = "element_form_default" -> [c EXCEPT !.element_form_default = call[2]]
      [] OTHER -> [c EXCEPT !.attribute_form_default = call[2]]

\* what a call on c does to another context that holds the same `same`
\* bottom scope dicts: a binding written into a shared dict shows in both
SeenThroughSharedScope(c, other, same, call) ==
    IF call[1] = "push_namespace" /\ c.namespace_stack # <<>>
         /\ Len(c.namespace_stack) <= same
    THEN [other EXCEPT !.namespace_stack[Len(c.namespace_stack)] =
                           DictSet(@, call[2], call[3])]
    ELSE other

Min(a, b) == IF a <= b THEN a ELSE b

VARIABLES
    fork,         \* the original context and, once made, its clone
    same_scopes,  \* how many bottom scope dicts the two contexts share
    klast,        \* the last call: method, and which context it was made on
    kops          \* number of calls made

forkVars == <<fork, same_scopes, klast, kops>>

NoForkCall == [op |-> "init", on |-> "none"]

ForkInit ==
    /\ fork = [orig |-> NewParseContext(None), copy |-> None]
    /\ same_scopes = 0
    /\ klast = NoForkCall
    /\ kops = 0

\* clone = orig.clone()
Clone ==
    LET r == clone(fork.orig)
    IN /\ kops < MaxForkOps
       /\ fork.copy = None
       /\ kops' = kops + 1
       /\ fork' = [fork EXCEPT !.copy = Some(r.ctx)]
       /\ same_scopes' = r.same_scopes
       /\ klast' = [op |-> "clone", on |-> "orig"]

\* a call on the original
CallOnOriginal(call) ==
    LET c == ForkCall(fork.orig, call)
    IN /\ kops < MaxForkOps
       /\ kops' = kops + 1
       /\ fork' = [orig |-> c,
                   copy |-> IF fork.copy = None THEN None
                            ELSE Some(SeenThroughSharedScope(fork.orig, fork.copy[1],
                                                             same_scopes, call))]
       /\ same_scopes' = Min(same_scopes, Len(c.namespace_stack))
       /\ klast' = [op |-> call[1], on |-> "orig"]

\* a call on the clone
CallOnClone(call) ==
    LET c == ForkCall(fork.copy[1], call)
    IN /\ kops < MaxForkOps
       /\ fork.copy # None
       /\ kops' = kops + 1
       /\ fork' = [orig |-> SeenThroughSharedScope(fork.copy[1], fork.orig,
                                                   same_scopes, call),
                   copy |-> Some(c)]
       /\ same_scopes' = Min(same_scopes, Len(c.namespace_stack))
       /\ klast' = [op |-> call[1], on |-> "copy"]

\* ------------------------------------- ComponentRegistry: queries, clear
LifeComponents ==
    {Component(i, Some(<<"x">>), Some(<<"a">>)) : i \in ComponentIds}
        \cup {Component(1, Some(<<"x">>), Some(<<"a", "b">>)),
              Component(1, Some(<<"x">>), None)}
LifeQNames == {qname(c) : c \in LifeComponents}
QueryQNames == {QName(<<>>, <<"x">>), QName(<<"a">>, <<"x">>)}
QueryNamespaces == {<<>>, <<"a">>}
QueryPrefixes == {<<>>, <<"a">>}
DefaultComponent == Component(2, Some(<<"d">>), None)

\* get(qname, default), given the result of storage.lookup(qname)
\* faulty variant: subscript access, which raises for a missing name
RegistryGet_Subscript(found, default) ==
    IF found = None
    THEN [ret |-> None, raised |-> "KeyError"]
    ELSE [ret |-> found, raised |-> "no"]

RegistryGet(found, default) ==
    [ret |-> IF found # None THEN found ELSE default, raised |-> "no"]

\* the read-only calls of the registry over the dict store
DictQuery(s, op, arg) ==
    CASE op = "lookup" -> [ret |-> DictLookup(s, arg), raised |-> "no"]
      [] op = "get" -> RegistryGet(DictLookup(s, arg), Some(DefaultComponent))
      [] op = "contains" -> [ret |-> DictContains(s, arg), raised |-> "no"]
      [] op = "by_namespace" -> [ret |-> DictByNamespace(s, arg), raised |-> "no"]
      [] OTHER -> [ret |-> DictByNamespacePrefix(s, arg), raised |-> "no"]

\* the read-only calls of the registry over the trie store
TrieQuery(s, op, arg) ==
    CASE op = "lookup" -> [ret |-> TrieLookup(s, arg), raised |-> "no"]
      [] op = "get" -> RegistryGet(TrieLookup(s, arg), Some(DefaultComponent))
      [] op = "contains" -> [ret |-> TrieContains(s, arg), raised |-> "no"]
      [] op = "by_namespace" -> [ret |-> TrieByNamespace(s, arg), raised |-> "no"]
      [] OTHER -> [ret |-> TrieByNamespacePrefix(s, arg), raised |-> "no"]

QueryCalls ==
    ({"lookup", "get", "contains"} \X QueryQNames)
        \cup ({"by_namespace"} \X QueryNamespaces)
        \cup ({"by_namespace_prefix"} \X QueryPrefixes)

\* storage.stats() and registry.stats(): the counts
DictStats(s) == [total_items |-> Len(s.items), namespaces |-> Len(s.namespace_index)]
TrieStats(s) ==
    [total_items |-> s.count, namespaces |-> Len(TrieKeysWithPrefix(s.trie, <<>>))]
RegistryStats(storage_stats, callbacks) ==
    [total_components |-> storage_stats.total_items,
     namespaces |-> storage_stats.namespaces,
     pending_callbacks |-> SumLens(callbacks)]

VARIABLES
    qlast,       \* the last read-only call and what it returned or raised
    discardedD,  \* history: callbacks that were pending when clear() ran (ds)
    discardedT,  \* history: callbacks that were pending when clear() ran (ts)
    clearedD,    \* history: names that were registered when clear() ran (ds)
    clearedT     \* history: names that were registered when clear() ran (ts)

lifeVars == <<qlast, discardedD, discardedT, clearedD, clearedT>>

NoQuery == [op |-> "none", arg |-> <<>>, retD |-> None, retT |-> None,
            raisedD |-> "no", raisedT |-> "no"]

LifeInit ==
    /\ qlast = NoQuery
    /\ discardedD = {}
    /\ discardedT = {}
    /\ clearedD = {}
    /\ clearedT = {}

\* a read-only call on both registries
Query(op, arg) ==
    LET rD == DictQuery(ds, op, arg)
        rT == TrieQuery(ts, op, arg)
    IN /\ qlast' = [op |-> op, arg |-> arg, retD |-> rD.ret, retT |-> rT.ret,
                    raisedD |-> rD.raised, raisedT |-> rT.raised]
       /\ UNCHANGED <<regVars, discardedD, discardedT, clearedD, clearedT>>

\* registry.clear() on both registries
RegistryClear ==
    /\ nops < MaxOps
    /\ ds' = DictClear(ds)
    /\ ts' = TrieClear(ts)
    /\ cbD' = <<>>
    /\ cbT' = <<>>
    /\ last' = [NoOp EXCEPT !.op = "registry_clear"]
    /\ nops' = nops + 1
    /\ discardedD' = discardedD \cup SeqToSet(Flatten(DictValues(cbD)))
    /\ discardedT' = discardedT \cup SeqToSet(Flatten(DictValues(cbT)))
    /\ clearedD' = clearedD \cup {q \in LifeQNames : DictContains(ds, q)}
    /\ clearedT' = clearedT \cup {q \in LifeQNames : TrieContains(ts, q)}
    /\ qlast' = NoQuery
    /\ UNCHANGED <<firedD, firedT, queuedD, queuedT, nextCb, removed, regOkD, regOkT>>

\* an operation of the registry or its store, made after any read-only call
Mutation(A) ==
    /\ A
    /\ qlast' = NoQuery
    /\ UNCHANGED <<discardedD, discardedT, clearedD, clearedT>>

\* --------------------------------------------------------------- ARCCache
MaxCacheOps == 5
CacheCapacities == {1, 2}
CacheKeys == {1, 2, 3}
CacheValues == {"v"}

\* ARCCache(capacity), capacity >= 1
NewARCCache(capacity) ==
    [capacity |-> capacity, p |-> 0, t1 |-> <<>>, t2 |-> <<>>,
     b1 |-> {}, b2 |-> {}, hits |-> 0, misses |-> 0]

ARCLen(c) == Len(c.t1) + Len(c.t2)

\* set.pop() when the set has outgrown the limit: any element may go
PopIfOver(s, limit) == IF Cardinality(s) > limit THEN {s \ {x} : x \in s} ELSE {s}

\* _replace(key): the caches it can leave behind
ARCReplace(c, key) ==
    LET evicted ==
            IF Len(c.t1) > 0
                 /\ (Len(c.t1) > c.p \/ (key \in c.b2 /\ Len(c.t1) = c.p))
            THEN [c EXCEPT !.t1 = Tail(@), !.b1 = @ \cup {Head(c.t1)[1]}]
            ELSE IF Len(c.t2) > 0
                 THEN [c EXCEPT !.t2 = Tail(@), !.b2 = @ \cup {Head(c.t2)[1]}]
                 ELSE c
    IN {[evicted EXCEPT !.b1 = s1, !.b2 = s2] :
            s1 \in PopIfOver(evicted.b1, c.capacity),
            s2 \in PopIfOver(evicted.b2, c.capacity)}

\* faulty variant: a hit in T1 copies the entry to T2 and leaves it in T1
ARCGet_CopyToT2(c, key) ==
    IF DictHas(c.t1, key)
    THEN [cache |-> [c EXCEPT !.hits = @ + 1,
                              !.t2 = Append(@, <<key, DictGet(c.t1, key)>>)],
          ret |-> Some(DictGet(c.t1, key))]
    ELSE IF DictHas(c.t2, key)
    THEN [cache |-> [c EXCEPT !.hits = @ + 1,
                              !.t2 = Append(DictDel(@, key), <<key, DictGet(c.t2, key)>>)],
          ret |-> Some(DictGet(c.t2, key))]
    ELSE [cache |-> [c EXCEPT !.misses = @ + 1], ret |-> None]

\* get(key): the cache afterwards and the returned value
ARCGet(c, key) ==
    IF DictHas(c.t1, key)
    THEN [cache |-> [c EXCEPT !.hits = @ + 1,
                              !.t1 = DictDel(@, key),
                              !.t2 = Append(@, <<key, DictGet(c.t1, key)>>)],
          ret |-> Some(DictGet(c.t1, key))]
    ELSE IF DictHas(c.t2, key)
    THEN [cache |-> [c EXCEPT !.hits = @ + 1,
                              !.t2 = Append(DictDel(@, key), <<key, DictGet(c.t2, key)>>)],
          ret |-> Some(DictGet(c.t2, key))]
    ELSE [cache |-> [c EXCEPT !.misses = @ + 1], ret |-> None]

Max(a, b) == IF a >= b THEN a ELSE b

\* cache[key] = value: the caches it can leave behind
ARCSetItem(c, key, value) ==
    IF DictHas(c.t1, key)
    THEN {[c EXCEPT !.t1 = DictDel(@, key), !.t2 = Append(@, <<key, value>>)]}
    ELSE IF DictHas(c.t2, key)
    THEN {[c EXCEPT !.t2 = Append(DictDel(@, key), <<key, value>>)]}
    ELSE
    LET in_b1 == key \in c.b1
        in_b2 == key \in c.b2
        adapted ==
            IF in_b1
            THEN [c EXCEPT !.p = Min(@ + Max(1, Cardinality(c.b2) \div Cardinality(c.b1)),
                                     c.capacity),
                           !.b1 = @ \ {key}]
            ELSE IF in_b2
            THEN [c EXCEPT !.p = Max(@ - Max(1, Cardinality(c.b1) \div Cardinality(c.b2)), 0),
                           !.b2 = @ \ {key}]
            ELSE c
        roomy == IF ARCLen(adapted) >= adapted.capacity
                 THEN ARCReplace(adapted, key)
                 ELSE {adapted}
    IN {IF in_b2
        THEN [r EXCEPT !.t2 = Append(@, <<key, value>>)]
        ELSE [r EXCEPT !.t1 = Append(@, <<key, value>>)] : r \in roomy}

\* clear()
ARCClear(c) ==
    [c EXCEPT !.t1 = <<>>, !.t2 = <<>>, !.b1 = {}, !.b2 = {}, !.p = 0,
              !.hits = 0, !.misses = 0]

VARIABLES
    cache,   \* the ARCCache
    alast,   \* the last call on it
    aops     \* number of calls made

cacheVars == <<cache, alast, aops>>

NoCacheCall == [op |-> "init", key |-> 0, ret |-> None]

CacheInit ==
    /\ cache = NewARCCache(2)
    /\ alast = NoCacheCall
    /\ aops = 0

CacheInitConfigured ==
    /\ \E capacity \in CacheCapacities : cache = NewARCCache(capacity)
    /\ alast = NoCacheCall
    /\ aops = 0

CacheGet(key) ==
    LET r == ARCGet(cache, key)
    IN /\ aops < MaxCacheOps
       /\ aops' = aops + 1
       /\ cache' = r.cache
       /\ alast' = [op |-> "get", key |-> key, ret |-> r.ret]

CacheSet(key, value) ==
    /\ aops < MaxCacheOps
    /\ aops' = aops + 1
    /\ cache' \in ARCSetItem(cache, key, value)
    /\ alast' = [op |-> "set", key |-> key, ret |-> None]

CacheClear ==
    /\ aops < MaxCacheOps
    /\ aops' = aops + 1
    /\ cache' = ARCClear(cache)
    /\ alast' = [op |-> "clear", key |-> 0, ret |-> None]

\* ------------------------------------------------ ParseContext: element path
MaxPathOps == 5
PathElements ==
    {<< <<>>, <<"a">> >>, << <<>>, <<"b">> >>, << <<>>, <<"c">> >>,
     << <<"n">>, <<"a">> >>}

\* "/".join(parts)
RECURSIVE Join(_)
Join(parts) ==
    IF parts = <<>> THEN <<>>
    ELSE IF Len(parts) = 1 THEN parts[1]
    ELSE parts[1] \o <<"/">> \o Join(Tail(parts))

\* f"{{{ns}}}{local}" if ns else local
PathPart(e) == IF e[1] # <<>> THEN <<"{">> \o e[1] \o <<"}">> \o e[2] ELSE e[2]

Reverse(s) == [i \in 1..Len(s) |-> s[Len(s) + 1 - i]]

\* faulty variant: the innermost element is rendered first
get_path_str_LeafFirst(ctx) ==
    LET parts == [i \in 1..Len(ctx.current_path) |-> PathPart(ctx.current_path[i])]
    IN IF parts # <<>> THEN <<"/">> \o Join(Reverse(parts)) ELSE <<"/">>

get_path_str(ctx) ==
    LET parts == [i \in 1..Len(ctx.current_path) |-> PathPart(ctx.current_path[i])]
    IN IF parts # <<>> THEN <<"/">> \o Join(parts) ELSE <<"/">>

\* what pop_element() returns
popped_element(ctx) ==
    IF ctx.current_path = <<>> THEN None
    ELSE Some(ctx.current_path[Len(ctx.current_path)])

VARIABLES
    path_ctx,  \* the ParseContext whose path is driven
    opened,    \* elements entered and not yet left, outermost first
    deepest,   \* the largest number of elements that were open at once
    plast,     \* the last call and what it returned
    pops       \* number of push/pop calls made

pathVars == <<path_ctx, opened, deepest, plast, pops>>

NoPathCall == [op |-> "init", before |-> <<>>, ret |-> None]

PathInit ==
    /\ path_ctx = NewParseContext(None)
    /\ opened = <<>>
    /\ deepest = 0
    /\ plast = NoPathCall
    /\ pops = 0

PushElement(namespace, local_name) ==
    /\ pops < MaxPathOps
    /\ pops' = pops + 1
    /\ path_ctx' = push_element(path_ctx, namespace, local_name)
    /\ opened' = Append(opened, <<namespace, local_name>>)
    /\ deepest' = Max(deepest, Len(opened) + 1)
    /\ plast' = [op |-> "push_element", before |-> path_ctx.current_path, ret |-> None]

PopElement ==
    /\ pops < MaxPathOps
    /\ pops' = pops + 1
    /\ path_ctx' = pop_element(path_ctx)
    /\ opened' = IF opened = <<>> THEN <<>> ELSE Take(opened, Len(opened) - 1)
    /\ plast' = [op |-> "pop_element", before |-> path_ctx.current_path,
                 ret |-> popped_element(path_ctx)]
    /\ UNCHANGED deepest

GetPathStr ==
    /\ plast' = [op |-> "get_path_str", before |-> path_ctx.current_path,
                 ret |-> Some(get_path_str(path_ctx))]
    /\ UNCHANGED <<path_ctx, opened, deepest, pops>>

\* ------------------------------------------------ PatriciaTrie used directly
MaxTrieOps == 4
TrieKeys ==
    {<<"a">>, <<"a", "b">>, <<"a", "b", "c">>, <<"a", "b", "d">>,
     <<"a", "c">>, <<"b">>}
TrieValues == {1, 2}
TrieProbes == TrieKeys \cup {<<>>, <<"c">>, <<"a", "b", "x">>, <<"b", "a">>}

VARIABLES
    pt,        \* the PatriciaTrie
    inserted,  \* every key set so far with the value of its latest insertion
    tlast,     \* the last insertion and whether the key was new
    tops       \* number of insertions made

trieVars == <<pt, inserted, tlast, tops>>

NoInsert == [key |-> <<>>, fresh |-> FALSE, reshaped |-> FALSE]

PtInit ==
    /\ pt = PatriciaTrieInit
    /\ inserted = <<>>
    /\ tlast = NoInsert
    /\ tops = 0

\* the edge labels on the way to the subtrees, outermost first
RECURSIVE EdgeLabels(_)
RECURSIVE EdgeLabelsOf(_, _)
EdgeLabels(node) == EdgeLabelsOf(node.children, 1)
EdgeLabelsOf(children, i) ==
    IF i > Len(children) THEN {}
    ELSE {children[i][2].prefix} \cup EdgeLabels(children[i][2])
              \cup EdgeLabelsOf(children, i + 1)

\* trie[key] = value, key not empty
TrieInsert(key, value) ==
    LET r == TrieSetItem(pt, key, value)
    IN /\ tops < MaxTrieOps
       /\ tops' = tops + 1
       /\ r.raised = "no"
       /\ pt' = r.st
       /\ inserted' = DictSet(inserted, key, value)
       /\ tlast' = [key |-> key, fresh |-> ~DictHas(inserted, key),
                    reshaped |-> ~(EdgeLabels(pt.root) \subseteq EdgeLabels(r.st.root))]

\* ------------------------------- ComponentRegistry: callbacks that call back
MaxReOps == 3
CompT == Component(1, Some(<<"x">>), Some(<<"a">>))
CompU == Component(2, Some(<<"y">>), Some(<<"a">>))
ReComponents == {CompT, CompU}
ReQNames == {qname(c) : c \in ReComponents}

\* what a callback does when the registry invokes it
Idle == [does |-> "nothing", comp |-> None, qn |-> None]
Bodies ==
    {Idle, [Idle EXCEPT !.does = "raise"]}
        \cup {[Idle EXCEPT !.does = "register", !.comp = Some(c)] : c \in ReComponents}
        \cup {[Idle EXCEPT !.does = "defer", !.qn = Some(q)] : q \in ReQNames}
BodyOf(bodies, cb) == IF DictHas(bodies, cb) THEN DictGet(bodies, cb) ELSE Idle
\* the callback object that callback cb passes to defer_resolution
Nested(cb) == cb + 100

StorageStore(kind, s, q, component) ==
    IF kind = "dict" THEN DictStore(s, q, component) ELSE TrieStore(s, q, component)
StorageLookup(kind, s, q) ==
    IF kind = "dict" THEN DictLookup(s, q) ELSE TrieLookup(s, q)
StorageClear(kind, s) ==
    IF kind = "dict" THEN DictClear(s) ELSE TrieClear(s)

NewRegistry(kind) ==
    [kind |-> kind,
     storage |-> IF kind = "dict" THEN DictStorageInit ELSE TrieStorageInit,
     callbacks |-> <<>>,
     fired |-> <<>>,
     raised |-> "no"]

RECURSIVE ReRegister(_, _, _)
RECURSIVE ReRegister_DrainBeforeStore(_, _, _)
RECURSIVE ReProcessCallbacks(_, _, _, _)
RECURSIVE ReProcessCallbacks_KeepsGoing(_, _, _, _)
RECURSIVE ReDeferResolution(_, _, _, _)
RECURSIVE ReDeferResolution_ListFirst(_, _, _, _)
RECURSIVE Invoke(_, _, _, _)

\* callback(component): the call is logged, then the body runs inside it; an
\* exception of the body leaves the call with `raised` set
Invoke(r, bodies, cb, component) ==
    LET called == [r EXCEPT !.fired = Append(@, [cb |-> cb, component |-> component])]
        body == BodyOf(bodies, cb)
    IN CASE body.does = "raise" -> [called EXCEPT !.raised = "CallbackError"]
         [] body.does = "register" -> ReRegister(called, bodies, body.comp[1])
         [] body.does = "defer" -> ReDeferResolution(called, bodies, body.qn[1], Nested(cb))
         [] OTHER -> called

\* faulty variant: an exception of a callback is swallowed and the loop goes on
ReProcessCallbacks_KeepsGoing(r, bodies, cbs, component) ==
    IF cbs = <<>> THEN r
    ELSE ReProcessCallbacks_KeepsGoing(
             [Invoke(r, bodies, Head(cbs), component) EXCEPT !.raised = "no"],
             bodies, Tail(cbs), component)

\* the loop of _process_callbacks over the popped list
ReProcessCallbacks(r, bodies, cbs, component) ==
    IF cbs = <<>> \/ r.raised # "no" THEN r
    ELSE ReProcessCallbacks(Invoke(r, bodies, Head(cbs), component),
                            bodies, Tail(cbs), component)

\* faulty variant: the pending callbacks are fired before the component is stored
ReRegister_DrainBeforeStore(r, bodies, component) ==
    LET q == qname(component)
        cbs == IF DictHas(r.callbacks, q) THEN DictGet(r.callbacks, q) ELSE <<>>
    IN IF StorageLookup(r.kind, r.storage, q) # None
       THEN [r EXCEPT !.raised = "ValueError: already registered"]
       ELSE LET drained == ReProcessCallbacks(
                               [r EXCEPT !.callbacks = DictDel(@, q)],
                               bodies, cbs, component)
                s == StorageStore(drained.kind, drained.storage, q, component)
            IN IF drained.raised # "no" THEN drained
               ELSE [drained EXCEPT !.storage = s.st, !.raised = s.raised]

\* register(component): storage.store, then _process_callbacks
ReRegister(r, bodies, component) ==
    LET q == qname(component)
        s == StorageStore(r.kind, r.storage, q, component)
        cbs == IF DictHas(r.callbacks, q) THEN DictGet(r.callbacks, q) ELSE <<>>
    IN IF s.raised # "no"
       THEN [r EXCEPT !.raised = s.raised]
       ELSE ReProcessCallbacks(
                [r EXCEPT !.storage = s.st, !.callbacks = DictDel(@, q)],
                bodies, cbs, component)

\* faulty variant: the pending list is created before the lookup
ReDeferResolution_ListFirst(r, bodies, q, cb) ==
    LET found == StorageLookup(r.kind, r.storage, q)
        c1 == IF DictHas(r.callbacks, q) THEN r.callbacks
              ELSE DictSet(r.callbacks, q, <<>>)
    IN IF found # None
       THEN Invoke([r EXCEPT !.callbacks = c1], bodies, cb, found[1])
       ELSE [r EXCEPT !.callbacks = DictSet(c1, q, Append(DictGet(c1, q), cb))]

\* defer_resolution(qname, callback)
ReDeferResolution(r, bodies, q, cb) ==
    LET found == StorageLookup(r.kind, r.storage, q)
        c1 == IF DictHas(r.callbacks, q) THEN r.callbacks
              ELSE DictSet(r.callbacks, q, <<>>)
    IN IF found # None
       THEN Invoke(r, bodies, cb, found[1])
       ELSE [r EXCEPT !.callbacks = DictSet(c1, q, Append(DictGet(c1, q), cb))]

\* clear()
ReClear(r) ==
    [r EXCEPT !.storage = StorageClear(r.kind, r.storage), !.callbacks = <<>>,
              !.raised = "no"]

VARIABLES
    registry,   \* the ComponentRegistry and the log of callback invocations
    cb_bodies,  \* what each callback passed to defer_resolution does
    next_cb,    \* the next callback object
    dropped,    \* callbacks taken off a pending list without being invoked
    elast,      \* the last call, the registry before it, and its outcome
    eops        \* number of calls made

reVars == <<registry, cb_bodies, next_cb, dropped, elast, eops>>

NoReCall == [op |-> "init", comp |-> None, qn |-> None, cb |-> 0,
             before |-> NewRegistry("dict")]

AllPending(r) == SeqToSet(Flatten(DictValues(r.callbacks)))
AllFired(r) == {r.fired[i].cb : i \in 1..Len(r.fired)}
Lost(before, after) == AllPending(before) \ (AllPending(after) \cup AllFired(after))

ReInit ==
    /\ registry = NewRegistry("trie")
    /\ cb_bodies = <<>>
    /\ next_cb = 1
    /\ dropped = {}
    /\ elast = NoReCall
    /\ eops = 0

ReInitConfigured ==
    /\ \E kind \in {"dict", "trie"} : registry = NewRegistry(kind)
    /\ cb_bodies = <<>>
    /\ next_cb = 1
    /\ dropped = {}
    /\ elast = NoReCall
    /\ eops = 0

\* registry.register(c) from outside any callback
RegisterReentrant(c) ==
    LET after == ReRegister([registry EXCEPT !.raised = "no"], cb_bodies, c)
    IN /\ eops < MaxReOps
       /\ eops' = eops + 1
       /\ registry' = after
       /\ dropped' = dropped \cup Lost(registry, after)
       /\ elast' = [NoReCall EXCEPT !.op = "register", !.comp = Some(c),
                                    !.qn = Some(qname(c)), !.before = registry]
       /\ UNCHANGED <<cb_bodies, next_cb>>

\* registry.defer_resolution(q, callback) from outside any callback, with a
\* new callback whose body is `body`
DeferReentrant(q, body) ==
    LET bodies == DictSet(cb_bodies, next_cb, body)
        after == ReDeferResolution([registry EXCEPT !.raised = "no"], bodies, q, next_cb)
    IN /\ eops < MaxReOps
       /\ eops' = eops + 1
       /\ cb_bodies' = bodies
       /\ next_cb' = next_cb + 1
       /\ registry' = after
       /\ dropped' = dropped \cup Lost(registry, after)
       /\ elast' = [NoReCall EXCEPT !.op = "defer", !.qn = Some(q), !.cb = next_cb,
                                    !.before = registry]

\* registry.clear() from outside any callback
ClearReentrant ==
    /\ eops < MaxReOps
    /\ eops' = eops + 1
    /\ registry' = ReClear(registry)
    /\ dropped' = dropped \cup AllPending(registry)
    /\ elast' = [NoReCall EXCEPT !.op = "clear", !.before = registry]
    /\ UNCHANGED <<cb_bodies, next_cb>>

\* ------------------------------------------------- further components
extraVars == <<cacheVars, pathVars, trieVars, reVars>>
ExtraInit == CacheInit /\ PathInit /\ PtInit /\ ReInit

\* -------------------------------------------------------------- SAXParser
MaxParses == 2
ThresholdUniverse == {1, 2}

TagUniverse == {QName(<<>>, <<"s">>), QName(<<"a">>, <<"e">>)}
HandlerTags == {<<"e">>}
DeclUniverse ==
    { <<>>,
      << << <<>>, <<"a">> >>, << <<"p">>, <<"a">> >>, << <<"x", "s">>, <<"b">> >> >> }
TargetNamespaces == {None}
DocPrefixes == {<<>>, <<"p">>, <<"x", "s">>, <<"x", "s", "d">>, <<"q">>}

VARIABLES
    pc,                    \* "idle", "parsing", "done" (parse returned), "raised"
    docOpen,               \* the source document: stack of its open elements
    rootSeen,              \* the source document: the root element has started
    closedDecl,            \* history: bindings declared by closed elements
    nextElem,              \* source line (identity) of the document's next element
    p_context,             \* SAXParser._context
    p_event_buffer,        \* SAXParser._event_buffer
    elements_since_clear,  \* SAXParser._elements_since_clear
    elements_count,        \* local elements_count of parse()
    handlers,              \* SAXParser._handlers (set of registered tags)
    strict,                \* SAXParser._strict
    memory_threshold,      \* SAXParser._memory_threshold
    hook,                  \* the handler hook run by the last event, if any
    result,                \* the ParseResult returned by the last parse()
    nevents,               \* number of events delivered so far
    nparses,               \* number of parse() calls so far
    eventLog,              \* history: the events iterparse delivered in this parse
    hookLog,               \* history: the handler hooks invoked in this parse
    twin,                  \* a second SAXParser, built with the default
                           \* memory_threshold, reading the same document
                           \* with the same handlers
    earlier                \* history: what the parse before this one left
                           \* behind when parse() was called again

parseVars == <<pc, docOpen, rootSeen, closedDecl, nextElem, p_context, p_event_buffer,
               elements_since_clear, elements_count, handlers, strict,
               memory_threshold, hook, result, nevents, nparses,
                   eventLog, hookLog, twin, earlier>>

vars == <<regVars, parseVars, apiVars, refVars, compVars, bufVars, forkVars, lifeVars, extraVars>>

NoHook == [kind |-> "none", elem |-> 0, context |-> None, buffer |-> None,
           raised |-> FALSE, nsmap |-> <<>>, attribs |-> <<>>,
           twin_attribs |-> <<>>]

\* the second parser before a parse
NewTwin(threshold) ==
    [memory_threshold |-> threshold, elements_since_clear |-> 0,
     elements_count |-> 0, attribs |-> <<>>]

\* the attributes the tree holds for each open element, outermost first
Attribs(open) == [i \in 1..Len(open) |-> open[i].attrib]

\* faulty variant: the counter is reset only when there is a parent to clear
ReclaimAtThreshold_OnlyWithParent(since_clear, threshold, parents) ==
    LET count == since_clear + 1
    IN IF count >= threshold /\ parents # <<>>
       THEN [elements_since_clear |-> 0,
             parents |-> [parents EXCEPT ![Len(parents)] = <<>>]]
       ELSE [elements_since_clear |-> count, parents |-> parents]

\* _handle_end_element after elem.clear: count the element and, at the
\* threshold, parent.clear() (which empties the parent's attributes) and
\* reset the counter.  parents = the attributes of the elements still open.
ReclaimAtThreshold(since_clear, threshold, parents) ==
    LET count == since_clear + 1
    IN IF count >= threshold
       THEN [elements_since_clear |-> 0,
             parents |-> IF parents # <<>>
                         THEN [parents EXCEPT ![Len(parents)] = <<>>]
                         ELSE parents]
       ELSE [elements_since_clear |-> count, parents |-> parents]

DefaultMemoryThreshold == 1000

NoEarlierParse == [failed |-> FALSE, diagnostics |-> FALSE, open |-> FALSE]

\* SAXParser(): the defaults
ParseInit ==
    /\ pc = "idle"
    /\ docOpen = <<>>
    /\ rootSeen = FALSE
    /\ closedDecl = {}
    /\ nextElem = 1
    /\ p_context = None
    /\ p_event_buffer = None
    /\ elements_since_clear = 0
    /\ elements_count = 0
    /\ handlers = {}
    /\ strict = FALSE
    /\ memory_threshold = DefaultMemoryThreshold
    /\ twin = NewTwin(DefaultMemoryThreshold)
    /\ hook = NoHook
    /\ result = None
    /\ nevents = 0
    /\ nparses = 0
    /\ eventLog = <<>>
    /\ hookLog = <<>>
    /\ earlier = NoEarlierParse

\* _get_qname: split the Clark-notation tag of an element
GetQName(tag) ==
    IF tag # <<>> /\ tag[1] = "{"
    THEN QName(SubSeq(tag, 2, Find(tag, "}") - 1), Drop(tag, Find(tag, "}")))
    ELSE QName(<<>>, tag)

\* _extract_namespaces: the element's nsmap (every binding in scope at the
\* element), with the default namespace keyed by the empty prefix
ExtractNamespaces(elem) == elem.nsmap

\* faulty variant: the handler is looked up by the element's expanded name
HandlerFor_ByExpandedName(hs, q) == expanded(q) \in hs

\* self._handlers.get(qname.local_name): a handler is registered for the
\* element's local name
HandlerFor(hs, q) == q.local_name \in hs

\* faulty variant: a handler error is never re-raised
HandlerErrorPropagates_Never(isStrict, raises) == FALSE

\* except Exception: if self._strict: raise
HandlerErrorPropagates(isStrict, raises) == raises /\ isStrict

\* register_handler(tag, handler), between parses
RegisterHandler(tag) ==
    /\ pc # "parsing"
    /\ tag \notin handlers
    /\ handlers' = handlers \cup {tag}
    /\ UNCHANGED <<pc, docOpen, rootSeen, closedDecl, nextElem, p_context,
                   p_event_buffer, elements_since_clear, elements_count, strict,
                   memory_threshold, hook, result, nevents, nparses,
                   eventLog, hookLog, twin, earlier>>
    /\ UNCHANGED <<regVars, apiVars, refVars, compVars, bufVars, forkVars, lifeVars, extraVars>>

\* parse(source, target_namespace=...) up to the start of the event loop;
\* exists = the source path exists
ParseBegin(exists, tns) ==
    /\ pc # "parsing"
    /\ nparses < MaxParses
    /\ nparses' = nparses + 1
    /\ p_context' = Some(NewParseContext(tns))
    /\ p_event_buffer' = Some(NewEventBuffer)
    /\ elements_since_clear' = 0
    /\ elements_count' = 0
    /\ pc' = IF exists THEN "parsing" ELSE "raised"
    /\ docOpen' = <<>>
    /\ rootSeen' = FALSE
    /\ closedDecl' = {}
    /\ hook' = NoHook
    /\ result' = None
    /\ nextElem' = 1
    /\ eventLog' = <<>>
    /\ hookLog' = <<>>
    /\ twin' = NewTwin(twin.memory_threshold)
    /\ earlier' = IF p_context = None THEN NoEarlierParse
                  ELSE [failed |-> pc = "raised",
                        diagnostics |-> p_context[1].errors # <<>>,
                        open |-> p_context[1].current_path # <<>>]
    /\ UNCHANGED <<handlers, strict, memory_threshold, nevents>>
    /\ UNCHANGED <<regVars, apiVars, refVars, compVars, bufVars, forkVars, lifeVars, extraVars>>

\* One iteration of the event loop on a "start" event: buffer.push, then
\* _handle_start_element, then elements_count += 1.  raises = the handler's
\* start hook raises.
StartEvent(tagq, decl, raises) ==
    LET parentMap == IF docOpen = <<>> THEN <<>> ELSE docOpen[Len(docOpen)].nsmap
        elem == [id |-> nextElem, tag |-> expanded(tagq), decl |-> decl,
                 nsmap |-> DictUpdate(parentMap, decl), attrib |-> <<"name">>]
        event == [type |-> "start", element |-> elem.id, line |-> elem.id]
        buf == BufferPush(p_event_buffer[1], event)
        q == GetQName(elem.tag)
        ns_declarations == ExtractNamespaces(elem)
        c1 == IF ns_declarations # <<>>
              THEN push_namespace_scope(p_context[1], ns_declarations)
              ELSE push_namespace_scope(p_context[1], <<>>)
        c2 == push_element(c1, q.namespace, q.local_name)
        handled == HandlerFor(handlers, q)
        c3 == IF handled /\ raises /\ ~HandlerErrorPropagates(strict, raises)
              THEN add_error(c2, "Handler error", elem.id)
              ELSE c2
    IN /\ pc = "parsing"
       /\ nevents < MaxParseEvents
       /\ Len(docOpen) < MaxDepth
       /\ docOpen = <<>> => ~rootSeen
       /\ raises => handled
       /\ nevents' = nevents + 1
       /\ nextElem' = nextElem + 1
       /\ rootSeen' = TRUE
       /\ docOpen' = Append(docOpen, elem)
       /\ p_event_buffer' = Some(buf)
       /\ p_context' = Some(c3)
       /\ hook' = IF handled
                  THEN [kind |-> "start", elem |-> elem.id, context |-> Some(c2),
                        buffer |-> Some(buf), raised |-> raises, nsmap |-> elem.nsmap,
                        attribs |-> Append(Attribs(docOpen), elem.attrib),
                        twin_attribs |-> Append(twin.attribs, elem.attrib)]
                  ELSE NoHook
       /\ twin' = [twin EXCEPT
                     !.attribs = Append(@, elem.attrib),
                     !.elements_count =
                         IF handled /\ HandlerErrorPropagates(strict, raises)
                         THEN @ ELSE @ + 1]
       /\ eventLog' = Append(eventLog,
              [type |-> "start", elem |-> elem.id,
               registered |-> q.local_name \in handlers])
       /\ hookLog' = IF handled
                     THEN Append(hookLog, [kind |-> "start", elem |-> elem.id,
                                           raised |-> raises])
                     ELSE hookLog
       /\ pc' = IF handled /\ HandlerErrorPropagates(strict, raises) THEN "raised" ELSE "parsing"
       /\ elements_count' = IF handled /\ HandlerErrorPropagates(strict, raises)
                            THEN elements_count ELSE elements_count + 1
       /\ UNCHANGED <<closedDecl, elements_since_clear, handlers, strict,
                      memory_threshold, result, nparses, earlier>>
       /\ UNCHANGED <<regVars, apiVars, refVars, compVars, bufVars, forkVars, lifeVars, extraVars>>

\* One iteration of the event loop on an "end" event: buffer.push, then
\* _handle_end_element.  raises = the handler's end hook raises.
EndEvent(raises) ==
    LET elem == docOpen[Len(docOpen)]
        event == [type |-> "end", element |-> elem.id, line |-> elem.id]
        buf == BufferPush(p_event_buffer[1], event)
        q == GetQName(elem.tag)
        handled == HandlerFor(handlers, q)
        c0 == p_context[1]
        c1 == IF handled /\ raises /\ ~HandlerErrorPropagates(strict, raises)
              THEN add_error(c0, "Handler error", elem.id)
              ELSE c0
        c2 == pop_element(c1)
        c3 == pop_namespace_scope(c2).ctx
        aborted == handled /\ HandlerErrorPropagates(strict, raises)
        rest == Take(docOpen, Len(docOpen) - 1)
        rec == ReclaimAtThreshold(elements_since_clear, memory_threshold,
                                  Attribs(rest))
        trec == ReclaimAtThreshold(twin.elements_since_clear,
                                   twin.memory_threshold,
                                   Take(twin.attribs, Len(twin.attribs) - 1))
    IN /\ pc = "parsing"
       /\ nevents < MaxParseEvents
       /\ docOpen # <<>>
       /\ raises => handled
       /\ nevents' = nevents + 1
       /\ p_event_buffer' = Some(buf)
       /\ hook' = IF handled
                  THEN [kind |-> "end", elem |-> elem.id, context |-> Some(c0),
                        buffer |-> Some(buf), raised |-> raises, nsmap |-> elem.nsmap,
                        attribs |-> Attribs(docOpen),
                        twin_attribs |-> twin.attribs]
                  ELSE NoHook
       /\ eventLog' = Append(eventLog,
              [type |-> "end", elem |-> elem.id,
               registered |-> q.local_name \in handlers])
       /\ hookLog' = IF handled
                     THEN Append(hookLog, [kind |-> "end", elem |-> elem.id,
                                           raised |-> raises])
                     ELSE hookLog
       /\ IF aborted
          THEN /\ pc' = "raised"
               /\ UNCHANGED <<p_context, docOpen, closedDecl, elements_since_clear,
                              twin>>
          ELSE /\ pc' = "parsing"
               /\ p_context' = Some(c3)
               /\ closedDecl' = closedDecl \cup SeqToSet(elem.decl)
               /\ elements_since_clear' = rec.elements_since_clear
               /\ docOpen' = [i \in 1..Len(rest) |->
                                 [rest[i] EXCEPT !.attrib = rec.parents[i]]]
               /\ twin' = [twin EXCEPT
                             !.elements_since_clear = trec.elements_since_clear,
                             !.attribs = trec.parents]
       /\ UNCHANGED <<rootSeen, nextElem, elements_count, handlers, strict,
                      memory_threshold, result, nparses, earlier>>
       /\ UNCHANGED <<regVars, apiVars, refVars, compVars, bufVars, forkVars, lifeVars, extraVars>>

\* The source is not well-formed: iterparse raises XMLSyntaxError, which
\* parse() re-raises as ParseError.
SyntaxError ==
    /\ pc = "parsing"
    /\ pc' = "raised"
    /\ UNCHANGED <<docOpen, rootSeen, closedDecl, nextElem, p_context, p_event_buffer,
                   elements_since_clear, elements_count, handlers, strict,
                   memory_threshold, hook, result, nevents, nparses,
                   eventLog, hookLog, twin, earlier>>
    /\ UNCHANGED <<regVars, apiVars, refVars, compVars, bufVars, forkVars, lifeVars, extraVars>>

\* The event loop ends (the root element is closed): parse() returns.
ParseFinish ==
    /\ pc = "parsing"
    /\ docOpen = <<>>
    /\ rootSeen
    /\ pc' = "done"
    /\ result' = Some([context |-> p_context[1], errors |-> p_context[1].errors,
                       elements_processed |-> elements_count])
    /\ UNCHANGED <<docOpen, rootSeen, closedDecl, nextElem, p_context, p_event_buffer,
                   elements_since_clear, elements_count, handlers, strict,
                   memory_threshold, hook, nevents, nparses,
                   eventLog, hookLog, twin, earlier>>
    /\ UNCHANGED <<regVars, apiVars, refVars, compVars, bufVars, forkVars, lifeVars, extraVars>>

\* --------------------------------------------------------- specifications
OtherInit == CompInit /\ BufInit /\ ForkInit /\ LifeInit /\ ExtraInit
Init == RegInit /\ ParseInit /\ ApiInit /\ RefInit /\ OtherInit

\* SAXParser(memory_threshold=..., strict=...)
ParseInitConfigured ==
    /\ pc = "idle"
    /\ docOpen = <<>>
    /\ rootSeen = FALSE
    /\ closedDecl = {}
    /\ nextElem = 1
    /\ p_context = None
    /\ p_event_buffer = None
    /\ elements_since_clear = 0
    /\ elements_count = 0
    /\ handlers = {}
    /\ strict \in BOOLEAN
    /\ memory_threshold \in ThresholdUniverse
    /\ twin = NewTwin(DefaultMemoryThreshold)
    /\ hook = NoHook
    /\ result = None
    /\ nevents = 0
    /\ nparses = 0
    /\ eventLog = <<>>
    /\ hookLog = <<>>
    /\ earlier = NoEarlierParse
InitParse == RegInit /\ ParseInitConfigured /\ ApiInit /\ RefInit /\ OtherInit
InitContext == RegInit /\ ParseInit /\ ApiInitConfigured /\ RefInit /\ OtherInit
InitComponent ==
    /\ RegInit /\ ParseInit /\ ApiInit /\ RefInit
    /\ CompInitConfigured /\ BufInit /\ ForkInit /\ LifeInit /\ ExtraInit
InitBuffer ==
    /\ RegInit /\ ParseInit /\ ApiInit /\ RefInit
    /\ CompInit /\ BufInitConfigured /\ ForkInit /\ LifeInit /\ ExtraInit

otherThanComp == <<regVars, parseVars, apiVars, refVars, bufVars, forkVars, lifeVars, extraVars>>
otherThanBuf == <<regVars, parseVars, apiVars, refVars, compVars, forkVars, lifeVars, extraVars>>
otherThanFork == <<regVars, parseVars, apiVars, refVars, compVars, bufVars, lifeVars, extraVars>>
otherThanLife == <<parseVars, apiVars, refVars, compVars, bufVars, forkVars, extraVars>>

NextRegistry ==
    \/ \E c \in RegistryComponents : Register(c) /\ UNCHANGED <<parseVars, apiVars, refVars, compVars, bufVars, forkVars, lifeVars, extraVars>>
    \/ \E q \in RegistryQNames : DeferResolution(q) /\ UNCHANGED <<parseVars, apiVars, refVars, compVars, bufVars, forkVars, lifeVars, extraVars>>

NextStorage ==
    \/ \E c \in Components : Store(c) /\ UNCHANGED <<parseVars, apiVars, refVars, compVars, bufVars, forkVars, lifeVars, extraVars>>
    \/ \E q \in QNames : Remove(q) /\ UNCHANGED <<parseVars, apiVars, refVars, compVars, bufVars, forkVars, lifeVars, extraVars>>
    \/ Clear /\ UNCHANGED <<parseVars, apiVars, refVars, compVars, bufVars, forkVars, lifeVars, extraVars>>

NextParse ==
    \/ \E tag \in HandlerTags : RegisterHandler(tag)
    \/ \E exists \in BOOLEAN, tns \in TargetNamespaces : ParseBegin(exists, tns)
    \/ \E tagq \in TagUniverse, decl \in DeclUniverse, raises \in BOOLEAN :
          StartEvent(tagq, decl, raises)
    \/ \E raises \in BOOLEAN : EndEvent(raises)
    \/ SyntaxError
    \/ ParseFinish

NextContext ==
    \/ \E m \in ScopeUniverse : PushNamespaceScope(m) /\ UNCHANGED <<regVars, parseVars, refVars, compVars, bufVars, forkVars, lifeVars, extraVars>>
    \/ PopNamespaceScope /\ UNCHANGED <<regVars, parseVars, refVars, compVars, bufVars, forkVars, lifeVars, extraVars>>
    \/ \E b \in BindingUniverse :
          PushNamespace(b[1], b[2]) /\ UNCHANGED <<regVars, parseVars, refVars, compVars, bufVars, forkVars, lifeVars, extraVars>>
    \/ \E pfx \in CtxPrefixes : ResolvePrefix(pfx) /\ UNCHANGED <<regVars, parseVars, refVars, compVars, bufVars, forkVars, lifeVars, extraVars>>
    \/ \E text \in TextUniverse, dn \in DefaultNamespaces :
          ResolveQName(text, dn) /\ UNCHANGED <<regVars, parseVars, refVars, compVars, bufVars, forkVars, lifeVars, extraVars>>

NextReference ==
    \/ \E c \in RefComponents : Register(c) /\ UNCHANGED <<parseVars, apiVars, refVars, compVars, bufVars, forkVars, lifeVars, extraVars>>
    \/ \E q \in RefQNames : Remove(q) /\ UNCHANGED <<parseVars, apiVars, refVars, compVars, bufVars, forkVars, lifeVars, extraVars>>
    \/ Clear /\ UNCHANGED <<parseVars, apiVars, refVars, compVars, bufVars, forkVars, lifeVars, extraVars>>
    \/ \E q \in RefQNames, choice \in RegistryChoices :
          Resolve(q, choice) /\ UNCHANGED <<regVars, parseVars, apiVars, compVars, bufVars, forkVars, lifeVars, extraVars>>

NextComponent ==
    \/ \E o \in ObjectIds : Freeze(o) /\ UNCHANGED otherThanComp
    \/ \E o \in ObjectIds, w \in AttributeWrites :
          SetAttr(o, w[1], w[2]) /\ UNCHANGED otherThanComp

NextBuffer ==
    \/ Push /\ UNCHANGED otherThanBuf
    \/ Consume /\ UNCHANGED otherThanBuf
    \/ \E n \in LookaheadArgs : Lookahead(n) /\ UNCHANGED otherThanBuf
    \/ \E n \in LookaheadArgs : CanLookahead(n) /\ UNCHANGED otherThanBuf
    \/ ClearBuffer /\ UNCHANGED otherThanBuf

NextFork ==
    \/ Clone /\ UNCHANGED otherThanFork
    \/ \E call \in ForkCalls : CallOnOriginal(call) /\ UNCHANGED otherThanFork
    \/ \E call \in ForkCalls : CallOnClone(call) /\ UNCHANGED otherThanFork

NextLifecycle ==
    \/ \E c \in LifeComponents : Mutation(Register(c)) /\ UNCHANGED otherThanLife
    \/ \E q \in LifeQNames : Mutation(DeferResolution(q)) /\ UNCHANGED otherThanLife
    \/ \E q \in LifeQNames : Mutation(Remove(q)) /\ UNCHANGED otherThanLife
    \/ RegistryClear /\ UNCHANGED otherThanLife
    \/ \E call \in QueryCalls : Query(call[1], call[2]) /\ UNCHANGED otherThanLife

SpecRegistry == Init /\ [][NextRegistry]_vars
SpecStorage == Init /\ [][NextStorage]_vars
SpecParse == InitParse /\ [][NextParse]_vars
SpecContext == InitContext /\ [][NextContext]_vars
SpecReference == Init /\ [][NextReference]_vars
SpecComponent == InitComponent /\ [][NextComponent]_vars
SpecBuffer == InitBuffer /\ [][NextBuffer]_vars
SpecFork == Init /\ [][NextFork]_vars
SpecLifecycle == Init /\ [][NextLifecycle]_vars
earlierVars == <<regVars, parseVars, apiVars, refVars, compVars, bufVars, forkVars, lifeVars>>
EarlierInit ==
    /\ RegInit /\ ParseInit /\ ApiInit /\ RefInit
    /\ CompInit /\ BufInit /\ ForkInit /\ LifeInit
otherThanCache == <<earlierVars, pathVars, trieVars, reVars>>
otherThanPath == <<earlierVars, cacheVars, trieVars, reVars>>
otherThanTrie == <<earlierVars, cacheVars, pathVars, reVars>>
otherThanRe == <<earlierVars, cacheVars, pathVars, trieVars>>

InitCache == EarlierInit /\ CacheInitConfigured /\ PathInit /\ PtInit /\ ReInit
InitReentrant == EarlierInit /\ CacheInit /\ PathInit /\ PtInit /\ ReInitConfigured

NextCache ==
    \/ \E key \in CacheKeys : CacheGet(key) /\ UNCHANGED otherThanCache
    \/ \E key \in CacheKeys, value \in CacheValues :
          CacheSet(key, value) /\ UNCHANGED otherThanCache
    \/ CacheClear /\ UNCHANGED otherThanCache

SpecCache == InitCache /\ [][NextCache]_vars

NextPath ==
    \/ \E e \in PathElements : PushElement(e[1], e[2]) /\ UNCHANGED otherThanPath
    \/ PopElement /\ UNCHANGED otherThanPath
    \/ GetPathStr /\ UNCHANGED otherThanPath

SpecPath == Init /\ [][NextPath]_vars

NextTrie ==
    \E key \in TrieKeys, value \in TrieValues :
        TrieInsert(key, value) /\ UNCHANGED otherThanTrie

SpecTrie == Init /\ [][NextTrie]_vars

NextReentrant ==
    \/ \E c \in ReComponents : RegisterReentrant(c) /\ UNCHANGED otherThanRe
    \/ \E q \in ReQNames, body \in Bodies :
          DeferReentrant(q, body) /\ UNCHANGED otherThanRe
    \/ ClearReentrant /\ UNCHANGED otherThanRe

SpecReentrant == InitReentrant /\ [][NextReentrant]_vars
Next == NextRegistry
Spec == SpecRegistry

\* ================================================================= claims
\* C1 (as stated): register(c) of a component whose qualified name is not
\* registered succeeds on the registry over the trie store and on the
\* registry over the dict store, whatever its name and namespace are, and
\* lookup(c.qname) returns c from then on.
C1_RegisterThenLookup ==
    /\ (last.op = "register" /\ ~last.hadT) => last.raisedT = "no"
    /\ (last.op = "register" /\ ~last.hadD) => last.raisedD = "no"
    /\ \A c \in regOkT : TrieLookup(ts, qname(c)) = Some(c)
    /\ \A c \in regOkD : DictLookup(ds, qname(c)) = Some(c)

\* C2: register(c2) with an already registered qualified name raises the
\* duplicate-name error and changes nothing observable: every lookup, the
\* length, the namespaces, the pending lists and the invocation log.
C2_DuplicateRegisterChangesNothing ==
    [][\A q \in QNames :
        (last'.op = "register" /\ last'.qn = Some(q)) =>
            /\ RegisteredIn(regOkT, q) =>
                  /\ last'.raisedT = "ValueError: already registered"
                  /\ \A r \in QNames : TrieLookup(ts', r) = TrieLookup(ts, r)
                  /\ TrieLen(ts') = TrieLen(ts)
                  /\ TrieNamespaces(ts') = TrieNamespaces(ts)
                  /\ cbT' = cbT
                  /\ firedT' = firedT
            /\ RegisteredIn(regOkD, q) =>
                  /\ last'.raisedD = "ValueError: already registered"
                  /\ \A r \in QNames : DictLookup(ds', r) = DictLookup(ds, r)
                  /\ DictLen(ds') = DictLen(ds)
                  /\ DictNamespaces(ds') = DictNamespaces(ds)
                  /\ cbD' = cbD
                  /\ firedD' = firedD]_vars
C2_Witness ==
    /\ last.op = "register"
    /\ last.raisedT = "ValueError: already registered"
    /\ last.raisedD = "ValueError: already registered"
    /\ cbT # <<>>
    /\ \E c \in regOkT : qname(c) = last.qn[1] /\ Some(c) # last.comp

\* callbacks that were queued on q, in the order of the defer calls
QueuedOn(queued, q) ==
    LET es == SelectSeq(queued, LAMBDA e : e[2] = q)
    IN [i \in 1..Len(es) |-> es[i][1]]
\* the invocations of the given callbacks, in the order they were made
FiredOf(fired, cbs) == SelectSeq(fired, LAMBDA f : f.cb \in cbs)

DrainedInOrder(regOk, callbacks, fired, queued) ==
    \A c \in regOk :
        LET cbs == QueuedOn(queued, qname(c))
        IN /\ FiredOf(fired, SeqToSet(cbs)) =
                  [i \in 1..Len(cbs) |-> [cb |-> cbs[i], component |-> c]]
           /\ ~DictHas(callbacks, qname(c))
PendingIsQueuedMinusFired(callbacks, fired, queued) ==
    PendingCount(callbacks) =
        Len(queued) - Len(FiredOf(fired, {queued[i][1] : i \in 1..Len(queued)}))

DeferContract(regOk, callbacks, callbacks2, fired, fired2, ret, q, cb) ==
    IF RegisteredIn(regOk, q)
    THEN /\ ret
         /\ \E c \in regOk : /\ qname(c) = q
                             /\ fired2 = Append(fired, [cb |-> cb, component |-> c])
         /\ callbacks2 = callbacks
    ELSE /\ ~ret
         /\ fired2 = fired
         /\ DictHas(callbacks2, q)
         /\ DictGet(callbacks2, q) =
               Append(IF DictHas(callbacks, q) THEN DictGet(callbacks, q) ELSE <<>>, cb)
         /\ \A r \in QNames \ {q} :
               /\ DictHas(callbacks2, r) = DictHas(callbacks, r)
               /\ DictHas(callbacks, r) => DictGet(callbacks2, r) = DictGet(callbacks, r)
C4_DeferResolvesNowOrQueues ==
    [][\A q \in QNames :
        (last'.op = "defer" /\ last'.qn = Some(q)) =>
            /\ DeferContract(regOkT, cbT, cbT', firedT, firedT', last'.retT, q, last'.cb)
            /\ DeferContract(regOkD, cbD, cbD', firedD, firedD', last'.retD, q, last'.cb)]_vars
C4_Witness ==
    /\ last.op = "defer"
    /\ last.retT
    /\ last.retD
    /\ cbT # <<>>
    /\ firedT # <<>>

\* C5: a reference deferred on B before B is registered has received B's
\* component once B is registered, and nothing is pending on B; callbacks
\* are pending only on names that were never registered, and a queued
\* callback whose name was never registered is still pending.
ForwardResolved(regOk, callbacks, fired, queued) ==
    /\ \A i \in 1..Len(queued) :
          LET cb == queued[i][1]
              q == queued[i][2]
          IN IF RegisteredIn(regOk, q)
             THEN /\ \E c \in regOk :
                        qname(c) = q /\ [cb |-> cb, component |-> c] \in SeqToSet(fired)
                  /\ ~DictHas(callbacks, q)
             ELSE /\ DictHas(callbacks, q)
                  /\ cb \in SeqToSet(DictGet(callbacks, q))
                  /\ \A j \in 1..Len(fired) : fired[j].cb # cb
    /\ \A q \in SeqToSet(PendingQNames(callbacks)) : ~RegisteredIn(regOk, q)
SameAnswers ==
    /\ \A q \in QNames : DictLookup(ds, q) = TrieLookup(ts, q)
    /\ \A p \in PrefixUniverse :
          SeqToSet(DictByNamespacePrefix(ds, p)) = SeqToSet(TrieByNamespacePrefix(ts, p))
SameOutcome ==
    /\ last.raisedD = last.raisedT
       \/ (last.raisedD # "no" /\ last.raisedT # "no")
    /\ last.retD = last.retT

\* C6 (as stated): the same store/remove/clear sequence applied to the dict
\* store and to the trie store, over all qualified names including those
\* with an empty namespace, gives the same outcome for each operation and
\* afterwards the same lookup(q) and the same by_namespace_prefix(p) set.
C6_BackendsAgree == SameOutcome /\ SameAnswers

\* the qualified names held in the buckets of the trie
HeldInTrie(s, q) ==
    LET ns_dict == TrieGet(s.trie, q.namespace)
    IN ns_dict # None /\ DictHas(ns_dict[1], q.local_name)

\* C7: every qualified name held in a trie bucket tests positive in the
\* Bloom filter, so lookup and containment never report it absent.
C7_NoFalseNegative ==
    \A q \in QNames :
        HeldInTrie(ts, q) =>
            /\ BloomContains(ts.bloom, expanded(q))
            /\ TrieLookup(ts, q) = Some(DictGet(TrieGet(ts.trie, q.namespace)[1],
                                                q.local_name))
            /\ TrieContains(ts, q)
C7_Witness ==
    /\ last.op = "store"
    /\ last.raisedT = "no"
    /\ removed # {}
    /\ \E q \in removed : ~HeldInTrie(ts, q) /\ BloomContains(ts.bloom, expanded(q))
    /\ \E q \in QNames : HeldInTrie(ts, q)

\* C8: in the trie store, remove(q) of a stored q makes lookup(q) absent and
\* q not contained while q's filter bits stay set, and the length drops by
\* one; a later store(q, c2) succeeds and lookup(q) then returns c2.
C8_RemoveThenStoreAgain ==
    [][\A q \in QNames :
        /\ (last'.op = "remove" /\ last'.qn = Some(q) /\ HeldInTrie(ts, q)) =>
              /\ last'.retT
              /\ TrieLookup(ts', q) = None
              /\ ~TrieContains(ts', q)
              /\ BloomContains(ts'.bloom, expanded(q))
              /\ TrieLen(ts') = TrieLen(ts) - 1
        /\ (last'.op = "store" /\ last'.qn = Some(q) /\ q \in removed
                /\ ~HeldInTrie(ts, q)) =>
              /\ last'.raisedT = "no"
              /\ TrieLookup(ts', q) = last'.comp
              /\ TrieLen(ts') = TrieLen(ts) + 1]_vars
C8_Witness ==
    /\ last.op = "store"
    /\ last.raisedT = "no"
    /\ last.qn[1] \in removed
    /\ last.comp[1].id = 2
    /\ TrieLookup(ts, last.qn[1]) = last.comp

Balanced(ctx) ==
    /\ Len(ctx.namespace_stack) = Len(ctx.current_path) + 1
    /\ ctx.namespace_stack[1] = BuiltinNamespaces

\* C9: at every handler hook the scope stack has one layer more than the
\* path has entries and its bottom layer is the seeded root scope; when
\* parse returns, the path is empty and only the root scope remains.
C9_ScopeDepthIsPathDepthPlusOne ==
    /\ hook.kind # "none" =>
          /\ Balanced(hook.context[1])
          /\ Len(hook.context[1].current_path) >= 1
    /\ pc = "done" =>
          /\ p_context[1].current_path = <<>>
          /\ p_context[1].namespace_stack = <<BuiltinNamespaces>>
          /\ result[1].context = p_context[1]
C9_Witness ==
    /\ pc = "done"
    /\ hook.kind = "end"
    /\ elements_count >= 2
    /\ Len(p_context[1].errors) >= 1

\* the binding of prefix that the source document puts in scope at its
\* innermost open element: the declaration of the nearest open element that
\* declares it, else the built-in one
RECURSIVE DeclaredFrom(_, _, _)
DeclaredFrom(open, i, prefix) ==
    IF i = 0
    THEN IF DictHas(BuiltinNamespaces, prefix)
         THEN Some(DictGet(BuiltinNamespaces, prefix)) ELSE None
    ELSE IF DictHas(open[i].decl, prefix) THEN Some(DictGet(open[i].decl, prefix))
    ELSE DeclaredFrom(open, i - 1, prefix)
InScope(prefix) == DeclaredFrom(docOpen, Len(docOpen), prefix)

\* C10: while element E is being processed, resolve_prefix and resolve_qname
\* see exactly the bindings declared on E and its ancestors plus the root
\* built-ins; a binding declared only by closed elements is not visible.
C10_ResolutionSeesOnlyOpenElements ==
    (pc \in {"parsing", "raised"} /\ docOpen # <<>>) =>
        \A prefix \in DocPrefixes :
            /\ resolve_prefix(p_context[1], prefix) = InScope(prefix)
            /\ prefix # <<>> =>
                 LET r == resolve_qname(p_context[1], prefix \o <<":", "t">>, None)
                 IN IF InScope(prefix) = None
                    THEN ~r.ok
                    ELSE r.ok /\ r.qn = QName(InScope(prefix)[1], <<"t">>)
C10_Witness ==
    /\ pc = "parsing"
    /\ Len(docOpen) = 2
    /\ << <<"p">>, <<"a">> >> \in closedDecl
    /\ resolve_prefix(p_context[1], <<"p">>) = None
    /\ << <<"x", "s">>, <<"b">> >> \in closedDecl
    /\ resolve_prefix(p_context[1], <<"x", "s">>) = Some(XSD_NAMESPACE)
    /\ hook.kind = "start"

\* the hooks as (kind, element) pairs, in invocation order
HookKeys(log) == [i \in 1..Len(log) |-> <<log[i].kind, log[i].elem>>]
\* the events of elements whose local name has a registered handler
RegisteredEvents(log) ==
    LET es == SelectSeq(log, LAMBDA e : e.registered)
    IN [i \in 1..Len(es) |-> <<es[i].type, es[i].elem>>]
\* every end hook closes the innermost element whose start hook is open
RECURSIVE NestedFrom(_, _, _)
NestedFrom(keys, i, open) ==
    IF i > Len(keys) THEN TRUE
    ELSE IF keys[i][1] = "start"
         THEN NestedFrom(keys, i + 1, Append(open, keys[i][2]))
    ELSE /\ open # <<>>
         /\ open[Len(open)] = keys[i][2]
         /\ NestedFrom(keys, i + 1, Take(open, Len(open) - 1))

\* C11: within one parse the hooks invoked are exactly the start and end
\* events of the elements whose local name has a handler, in document order,
\* each once, and properly nested.
C11_HooksInDocumentOrder ==
    /\ HookKeys(hookLog) = RegisteredEvents(eventLog)
    /\ \A i, j \in 1..Len(hookLog) :
          HookKeys(hookLog)[i] = HookKeys(hookLog)[j] => i = j
    /\ NestedFrom(HookKeys(hookLog), 1, <<>>)
C11_Witness ==
    /\ pc = "done"
    /\ Len(eventLog) = 4
    /\ HookKeys(hookLog) = << <<"start", 1>>, <<"end", 1>>, <<"start", 3>>, <<"end", 3>> >>
       \/ HookKeys(hookLog) = << <<"start", 1>>, <<"start", 2>>, <<"end", 2>>, <<"end", 1>> >>

\* the source lines of the elements whose hook raised, in invocation order
FailureLines(log) ==
    LET fs == SelectSeq(log, LAMBDA h : h.raised)
    IN [i \in 1..Len(fs) |-> fs[i].elem]
ErrorLines(errors) == [i \in 1..Len(errors) |-> errors[i].line]
LenientState ==
    (~strict /\ p_context # None) =>
        /\ ErrorLines(p_context[1].errors) = FailureLines(hookLog)
        /\ HookKeys(hookLog) = RegisteredEvents(eventLog)
        /\ pc = "parsing" =>
              /\ Len(p_context[1].current_path) = Len(docOpen)
              /\ Len(p_context[1].namespace_stack) = Len(docOpen) + 1
        /\ pc = "done" =>
              /\ ErrorLines(result[1].errors) = FailureLines(hookLog)
              /\ p_context[1].current_path = <<>>
              /\ Len(p_context[1].namespace_stack) = 1

\* C12: in lenient mode a raising hook never aborts the parse; each failing
\* hook appends exactly one diagnostic, later events are still dispatched,
\* the scope and path stacks stay balanced, and the diagnostics returned
\* are in document order of the failures.
C12_LenientKeepsGoing ==
    [][/\ LenientState'
       /\ (~strict /\ Len(hookLog') = Len(hookLog) + 1) =>
             /\ pc' = "parsing"
             /\ Len(p_context'[1].errors) =
                   Len(p_context[1].errors) +
                       (IF hookLog'[Len(hookLog')].raised THEN 1 ELSE 0)]_vars
C12_Witness ==
    /\ ~strict
    /\ pc = "done"
    /\ Len(hookLog) = 4
    /\ hookLog[1].raised
    /\ hookLog[2].raised
    /\ ~hookLog[4].raised
    /\ Len(result[1].errors) >= 2

StrictState ==
    strict =>
        /\ \A i \in 1..Len(hookLog) :
              hookLog[i].raised =>
                  /\ i = Len(hookLog)
                  /\ <<hookLog[i].kind, hookLog[i].elem>> =
                        <<eventLog[Len(eventLog)].type, eventLog[Len(eventLog)].elem>>
                  /\ pc = "raised"
                  /\ result = None
        /\ pc = "done" => \A i \in 1..Len(hookLog) : ~hookLog[i].raised

\* C13: in strict mode the first raising hook aborts the parse: no hook is
\* invoked and no event is processed after it, parse raises instead of
\* returning, and no ParseResult is kept.
C13_StrictAbortsAtFirstFailure ==
    [][/\ StrictState'
       /\ (strict /\ hookLog # <<>> /\ hookLog[Len(hookLog)].raised
              /\ hookLog' # <<>>) =>
             /\ hookLog' = hookLog
             /\ eventLog' = eventLog
             /\ pc' = "raised"]_vars
C13_Witness ==
    /\ strict
    /\ pc = "raised"
    /\ Len(hookLog) >= 3
    /\ hookLog[Len(hookLog)].raised
    /\ Len(eventLog) > Len(hookLog)
    /\ result = None

\* C14 (as stated): two parsers that differ only in memory_threshold, reading
\* the same document with the same handlers, count the same number of
\* elements and present to every hook the same attributes of the element
\* and of its open ancestors.
C14_ThresholdDoesNotChangeResults ==
    /\ twin.elements_count = elements_count
    /\ hook.kind # "none" => hook.attribs = hook.twin_attribs

\* C15 (as stated): a parse() call on a path that does not exist raises and
\* leaves the parser's context, event buffer and reclamation counter exactly
\* as they were before the call.
C15_MissingSourceCreatesNoState ==
    [][(nparses' = nparses + 1 /\ pc' = "raised") =>
          /\ p_context' = p_context
          /\ p_event_buffer' = p_event_buffer
          /\ elements_since_clear' = elements_since_clear]_vars

\* a text as given and with surrounding whitespace
Pad(body) == {body, <<" ">> \o body \o <<"\n">>}
\* the namespace of a bare name: the given default, else the target
\* namespace, else none
BareNamespace(c, dn) ==
    IF dn # None THEN dn[1]
    ELSE IF c.target_namespace # None THEN c.target_namespace[1]
    ELSE <<>>

\* C16: resolve_qname on "p:l" gives (resolve_prefix(p), l) when p is bound
\* and fails with the undefined-prefix error otherwise; on bare "l" the
\* namespace is the given default, else the target namespace, else none; on
\* "{u}l" it gives (u, l) whatever the scopes are; surrounding whitespace is
\* ignored and blank text fails.
C16_ResolveQNameForms ==
    clast.op = "resolve_qname" =>
        LET r == clast.res
            t == clast.text
        IN /\ \A pfx \in CtxPrefixes :
                 t \in Pad(pfx \o <<":", "l">>) =>
                     IF resolve_prefix(api_ctx, pfx) # None
                     THEN /\ r.ok
                          /\ r.qn = QName(resolve_prefix(api_ctx, pfx)[1], <<"l">>)
                     ELSE /\ ~r.ok
                          /\ r.err = "Undefined namespace prefix"
           /\ \A l \in {<<"l">>, <<"s">>} :
                 t \in Pad(l) =>
                     r.ok /\ r.qn = QName(BareNamespace(api_ctx, clast.dn), l)
           /\ \A u \in {<<"u">>, <<>>, <<"a">>}, l \in {<<"l">>, <<"e">>} :
                 t \in Pad(<<"{">> \o u \o <<"}">> \o l) =>
                     r.ok /\ r.qn = QName(u, l)
           /\ t \in Pad(<<>>) => ~r.ok
C16_Witness ==
    /\ clast.op = "resolve_qname"
    /\ clast.text = <<" ", "p", ":", "l", "\n">>
    /\ Len(api_ctx.namespace_stack) = 3
    /\ clast.res.ok
    /\ clast.res.qn = QName(<<"b">>, <<"l">>)
    /\ DictHas(api_ctx.namespace_stack[2], <<"p">>)
    /\ DictGet(api_ctx.namespace_stack[2], <<"p">>) = <<"a">>

\* C17 (as stated): for every qualified name q that _get_qname produces,
\* resolve_qname(q.expanded) gives q back, whatever the target namespace and
\* the scope bindings of the context are.
C17_ExpandedRoundTrip ==
    \A q \in TagUniverse :
        (clast.op = "resolve_qname" /\ clast.dn = None /\ clast.text = expanded(q)) =>
            clast.res.ok /\ clast.res.qn = q

\* the URI bound to prefix in the innermost scope that binds it
InnermostBinding(stack, prefix) ==
    LET binders == {i \in 1..Len(stack) : DictHas(stack[i], prefix)}
    IN IF binders = {} THEN None
       ELSE LET top == CHOOSE i \in binders : \A j \in binders : j <= i
            IN Some(DictGet(stack[top], prefix))

\* C18: resolve_prefix(p) is the URI bound to p in the innermost scope that
\* binds p, and absent when no scope binds p; after pop_namespace_scope every
\* prefix resolves to what it resolved to just before the matching push.
C18_InnermostBindingWins ==
    /\ \A pfx \in CtxPrefixes :
          resolve_prefix(api_ctx, pfx) = InnermostBinding(api_ctx.namespace_stack, pfx)
    /\ clast.op = "resolve_prefix" =>
          clast.pres = InnermostBinding(clast.stack, clast.prefix)
    /\ (clast.op = "pop_namespace_scope" /\ clast.raised = "no") =>
          Resolution(api_ctx) = clast.before[1]
C18_Witness ==
    /\ clast.op = "pop_namespace_scope"
    /\ clast.raised = "no"
    /\ Len(clast.stack) = 3
    /\ InnermostBinding(clast.stack, <<"p">>) = Some(<<"b">>)
    /\ resolve_prefix(api_ctx, <<"p">>) = Some(<<"a">>)
    /\ InnermostBinding(clast.stack, <<"x", "s">>) = Some(<<"b">>)
    /\ resolve_prefix(api_ctx, <<"x", "s">>) = Some(XSD_NAMESPACE)

\* the root scope still carries the bindings it was seeded with
RootScopeKept(stack) ==
    /\ Len(stack) >= 1
    /\ \A i \in 1..Len(BuiltinNamespaces) :
          /\ DictHas(stack[1], BuiltinNamespaces[i][1])
          /\ DictGet(stack[1], BuiltinNamespaces[i][1]) = BuiltinNamespaces[i][2]

\* C19: pop_namespace_scope raises the root-scope ParseError whenever only
\* the root scope remains and then leaves the stack unchanged (otherwise it
\* removes exactly the top scope), so the root scope is never removed.
C19_RootScopeNeverPopped ==
    /\ RootScopeKept(api_ctx.namespace_stack)
    /\ clast.op = "pop_namespace_scope" =>
          IF Len(clast.stack) <= 1
          THEN /\ clast.raised = "ParseError: Cannot pop root namespace scope"
               /\ api_ctx.namespace_stack = clast.stack
          ELSE /\ clast.raised = "no"
               /\ api_ctx.namespace_stack = Take(clast.stack, Len(clast.stack) - 1)
C19_Witness ==
    /\ clast.op = "pop_namespace_scope"
    /\ clast.raised = "ParseError: Cannot pop root namespace scope"
    /\ cops >= 2
    /\ Len(api_ctx.namespace_stack) = 1
    /\ DictHas(api_ctx.namespace_stack[1], <<"q">>)

\* C20: once a reference has resolved to X, every later resolve() returns X
\* whatever registry is passed and whatever was removed or cleared since; a
\* resolve() of an unresolved reference against a registry lacking the name
\* raises the resolution error naming the target and leaves the reference
\* unresolved, and one against a registry holding the name returns and
\* caches the component.
C20_ResolvedReferenceIsPermanent ==
    [][/\ \A q \in RefQNames :
             refs[q].resolved # None => refs'[q].resolved = refs[q].resolved
       /\ rops' = rops + 1 =>
             LET q == rlast'.qn
                 found == RegistryLookup(rlast'.registry, q)
             IN IF refs[q].resolved # None
                THEN /\ rlast'.ret = refs[q].resolved
                     /\ rlast'.raised = "no"
                ELSE IF found = None
                THEN /\ rlast'.raised = "ResolutionError: Cannot resolve type reference"
                     /\ rlast'.qname = expanded(q)
                     /\ refs'[q].resolved = None
                ELSE /\ rlast'.raised = "no"
                     /\ rlast'.ret = found
                     /\ refs'[q].resolved = found]_vars
C20_Witness ==
    /\ rlast.op = "resolve"
    /\ rlast.was # None
    /\ rlast.ret = rlast.was
    /\ rlast.found = None
    /\ TrieLookup(ts, rlast.qn) = None
    /\ DictLookup(ds, rlast.qn) = None
    /\ last.op \in {"remove", "clear"}

\* the components reachable from o through child fields, o included
RECURSIVE ReachableFrom(_, _, _)
ReachableFrom(heap, o, seen) ==
    IF o \in seen THEN seen
    ELSE IF heap[o].child = None THEN seen \cup {o}
    ELSE ReachableFrom(heap, heap[o].child[1], seen \cup {o})

\* C21 (as stated): once freeze() has returned on a component, an assignment
\* to any of its attribute names raises the frozen-mutation error and leaves
\* every field as it was, and the component never reports is_frozen = false
\* again.
C21_FreezeIsOneWay ==
    [][\A o \in everFrozen :
          /\ is_frozen(comps', o)
          /\ (mops' # mops /\ mlast'.op = "setattr" /\ mlast'.target = o) =>
                /\ mlast'.raised # "no"
                /\ comps' = comps]_vars

\* C22 (as stated): freeze() never fails, a freeze() of a frozen component
\* changes nothing, and when freeze() has returned the component and every
\* component reachable from it through child fields is frozen.
C22_FreezeIsIdempotentAndDeep ==
    [][(mops' # mops /\ mlast'.op = "freeze") =>
          /\ mlast'.raised = "no"
          /\ is_frozen(comps, mlast'.target) => comps' = comps
          /\ \A d \in ReachableFrom(comps', mlast'.target, {}) : is_frozen(comps', d)]_vars

\* the last k elements of s, all of s when it has fewer
LastK(s, k) == IF Len(s) <= k THEN s ELSE Drop(s, Len(s) - k)

\* C23: the queue never holds more than its capacity k; a push leaves the
\* k most recent of the queued events and the pushed one, in arrival order
\* (so a push onto a full queue drops exactly the oldest), and leaves the
\* current slot alone.
C23_QueueBoundedRing ==
    /\ Len(eb.buffer) <= eb.maxlen
    /\ blast.op = "push" =>
          /\ eb.buffer = LastK(Append(blast.before.buffer, blast.n), eb.maxlen)
          /\ eb.current = blast.before.current
          /\ eb.maxlen = blast.before.maxlen
C23_Witness ==
    /\ blast.op = "push"
    /\ eb.maxlen = EventBufferMaxlen
    /\ Len(blast.before.buffer) = EventBufferMaxlen
    /\ eb.buffer = Append(Tail(blast.before.buffer), blast.n)

\* C24: lookahead(n) leaves the buffer as it was, two lookahead(n) calls in
\* a row return the same event, and consume() returns what lookahead(1)
\* returned just before it (nothing on an empty queue), takes that event
\* off the front of the queue and makes it the current event.
C24_LookaheadPureConsumeFollows ==
    [][bops' # bops =>
          /\ blast'.op = "lookahead" =>
                /\ eb' = eb
                /\ (blast.op = "lookahead" /\ blast.n = blast'.n) => blast'.ret = blast.ret
          /\ blast'.op = "consume" =>
                /\ blast'.ret = BufferLookahead(eb, 1)
                /\ (blast.op = "lookahead" /\ blast.n = 1) => blast'.ret = blast.ret
                /\ eb'.current = blast'.ret
                /\ eb'.buffer = IF eb.buffer = <<>> THEN <<>> ELSE Tail(eb.buffer)
                /\ eb'.maxlen = eb.maxlen]_vars
C24_Witness ==
    /\ blast.op = "consume"
    /\ blast.ret # None
    /\ blast.ret = Some(Head(blast.before.buffer))
    /\ Len(blast.before.buffer) >= 2
    /\ eb.current = blast.ret

\* C25: lookahead(n) is the n-th queued event, counted from the oldest,
\* when 1 <= n <= queue length, and absent for every other n, zero and
\* negative n included; can_lookahead(n) holds exactly when lookahead(n)
\* is not absent.
C25_LookaheadRange ==
    /\ blast.op = "lookahead" =>
          blast.ret = IF 1 <= blast.n /\ blast.n <= Len(blast.before.buffer)
                      THEN Some(blast.before.buffer[blast.n])
                      ELSE None
    /\ blast.op = "can_lookahead" =>
          blast.ret = (BufferLookahead(blast.before, blast.n) # None)
    /\ \A n \in LookaheadArgs : BufferCanLookahead(eb, n) = (BufferLookahead(eb, n) # None)
C25_Witness ==
    /\ blast.op = "lookahead"
    /\ blast.n < 1
    /\ Len(blast.before.buffer) >= 2
    /\ blast.ret = None

\* the place of a buffered event in the document's event sequence
EventPosition(log, type, element) ==
    CHOOSE i \in 1..Len(log) : log[i].type = type /\ log[i].elem = element

\* C26 (as stated): while a handler hook runs for event e, every event it
\* can read with buffer.lookahead(n) comes after e in document order.
C26_LookaheadIsForward ==
    hook.kind # "none" =>
        \A n \in 1..EventBufferMaxlen :
            LET ev == BufferLookahead(hook.buffer[1], n)
            IN ev # None =>
                  EventPosition(eventLog, ev[1].type, ev[1].element)
                      > EventPosition(eventLog, hook.kind, hook.elem)

\* C27: clone() returns a context with the same scope stack, path and form
\* defaults as the original and no diagnostics, and leaves the original
\* alone; from then on a call on the clone leaves the original unchanged
\* and a call on the original leaves the clone unchanged.
C27_CloneIsIndependent ==
    [][kops' # kops =>
          /\ klast'.op = "clone" =>
                /\ fork'.copy # None
                /\ fork'.copy[1].namespace_stack = fork.orig.namespace_stack
                /\ fork'.copy[1].current_path = fork.orig.current_path
                /\ fork'.copy[1].element_form_default = fork.orig.element_form_default
                /\ fork'.copy[1].attribute_form_default = fork.orig.attribute_form_default
                /\ fork'.copy[1].errors = <<>>
                /\ fork'.orig = fork.orig
          /\ (klast'.op # "clone" /\ klast'.on = "copy") => fork'.orig = fork.orig
          /\ (klast'.op # "clone" /\ klast'.on = "orig") => fork'.copy = fork.copy]_vars
C27_Witness ==
    /\ fork.copy # None
    /\ klast.op = "push_namespace"
    /\ klast.on = "copy"
    /\ fork.orig.errors # <<>>
    /\ fork.copy[1].errors = <<>>
    /\ fork.copy[1].namespace_stack # fork.orig.namespace_stack
    /\ DictHas(fork.copy[1].namespace_stack[1], <<"q">>)
    /\ ~DictHas(fork.orig.namespace_stack[1], <<"q">>)

\* C28: lookup, get, the containment test, by_namespace and
\* by_namespace_prefix, on either backend and for any name or namespace,
\* the empty namespace and unregistered names included, return without
\* raising and leave the stored components and the pending callbacks as
\* they were; lookup and the containment test agree, and get returns the
\* default exactly when lookup returns nothing.
C28_QueriesNeverFail ==
    [][qlast'.op # "none" =>
          /\ qlast'.raisedD = "no"
          /\ qlast'.raisedT = "no"
          /\ ds' = ds /\ ts' = ts
          /\ cbD' = cbD /\ cbT' = cbT
          /\ firedD' = firedD /\ firedT' = firedT
          /\ qlast'.op = "get" =>
                /\ qlast'.retD = IF DictLookup(ds, qlast'.arg) = None
                                 THEN Some(DefaultComponent)
                                 ELSE DictLookup(ds, qlast'.arg)
                /\ qlast'.retT = IF TrieLookup(ts, qlast'.arg) = None
                                 THEN Some(DefaultComponent)
                                 ELSE TrieLookup(ts, qlast'.arg)
          /\ qlast'.op = "contains" =>
                /\ qlast'.retD = (DictLookup(ds, qlast'.arg) # None)
                /\ qlast'.retT = (TrieLookup(ts, qlast'.arg) # None)]_vars
C28_Witness ==
    /\ qlast.op = "get"
    /\ qlast.arg = QName(<<>>, <<"x">>)
    /\ qlast.retT = Some(DefaultComponent)
    /\ qlast.retD # Some(DefaultComponent)
    /\ TrieLen(ts) > 0
    /\ cbT # <<>>

\* the namespaces of the components a registry can be given
LifeNamespaces == {q.namespace : q \in LifeQNames}
\* the callbacks queued in a pending table, over all names
PendingCallbacks(callbacks) == SeqToSet(Flatten(DictValues(callbacks)))

\* C29 (as stated): on both backends stats() reports total_components =
\* the number of stored components = len(registry), namespaces = the
\* number of namespaces that hold at least one component, which are the
\* namespaces that namespaces() returns, and pending_callbacks = the number
\* of queued callbacks.
C29_StatsMatchContents ==
    LET sD == RegistryStats(DictStats(ds), cbD)
        sT == RegistryStats(TrieStats(ts), cbT)
        holdD == {ns \in LifeNamespaces : DictByNamespace(ds, ns) # <<>>}
        holdT == {ns \in LifeNamespaces : TrieByNamespace(ts, ns) # <<>>}
    IN /\ sD.total_components = Len(DictAllItems(ds))
       /\ sD.total_components = DictLen(ds)
       /\ sT.total_components = Len(TrieAllItems(ts))
       /\ sT.total_components = TrieLen(ts)
       /\ sD.namespaces = Cardinality(holdD)
       /\ SeqToSet(DictNamespaces(ds)) = holdD
       /\ sT.namespaces = Cardinality(holdT)
       /\ SeqToSet(TrieNamespaces(ts)) = holdT
       /\ sD.pending_callbacks = Cardinality(PendingCallbacks(cbD))
       /\ sT.pending_callbacks = Cardinality(PendingCallbacks(cbT))

\* the state of both registries right after clear()
EmptyRegistries ==
    /\ DictLen(ds) = 0 /\ TrieLen(ts) = 0
    /\ \A q \in LifeQNames :
          /\ DictLookup(ds, q) = None /\ TrieLookup(ts, q) = None
          /\ ~DictContains(ds, q) /\ ~TrieContains(ts, q)
    /\ DictNamespaces(ds) = <<>> /\ TrieNamespaces(ts) = <<>>
    /\ PendingQNames(cbD) = <<>> /\ PendingQNames(cbT) = <<>>
    /\ PendingCount(cbD) = 0 /\ PendingCount(cbT) = 0

\* the callbacks that have been invoked
Invoked(fired) == {fired[i].cb : i \in 1..Len(fired)}

\* C30: right after clear() no name is registered, namespaces() is empty
\* and nothing is pending; clear() invokes no callback, a callback it
\* discarded is never invoked afterwards, and a name that was registered
\* when clear() ran can be registered again once it is free.
C30_ClearEmptiesRegistry ==
    [][/\ (nops' # nops /\ last'.op = "registry_clear") =>
             /\ EmptyRegistries'
             /\ firedD' = firedD /\ firedT' = firedT
       /\ discardedD' \cap Invoked(firedD') = {}
       /\ discardedT' \cap Invoked(firedT') = {}
       /\ (nops' # nops /\ last'.op = "register") =>
             LET q == last'.qn[1]
             IN /\ (q \in clearedD /\ DictLookup(ds, q) = None) =>
                      /\ last'.raisedD = "no"
                      /\ DictLookup(ds', q) = last'.comp
                /\ (q \in clearedT /\ TrieLookup(ts, q) = None) =>
                      /\ last'.raisedT = "no"
                      /\ TrieLookup(ts', q) = last'.comp]_vars
C30_Witness ==
    /\ last.op = "register"
    /\ last.qn[1] \in clearedT
    /\ last.qn[1] \in clearedD
    /\ last.raisedT = "no"
    /\ last.raisedD = "no"
    /\ TrieLookup(ts, last.qn[1]) = last.comp
    /\ DictLookup(ds, last.qn[1]) = last.comp

\* C31: with capacity c >= 1, after any sequence of get and set calls the
\* number of cached entries, |T1| + |T2|, never exceeds c.
C31_SizeWithinCapacity ==
    ARCLen(cache) <= cache.capacity

\* C39: after any sequence of get, set and clear calls no key is in both T1
\* and T2, no cached key is in B1 or B2, B1 and B2 are disjoint, each ghost
\* list holds at most capacity keys, and p stays within 0..capacity.
CachedKeys(c) == SeqToSet(DictKeys(c.t1)) \cup SeqToSet(DictKeys(c.t2))

C39_ListsDisjointAndBounded ==
    /\ SeqToSet(DictKeys(cache.t1)) \cap SeqToSet(DictKeys(cache.t2)) = {}
    /\ CachedKeys(cache) \cap (cache.b1 \cup cache.b2) = {}
    /\ cache.b1 \cap cache.b2 = {}
    /\ Cardinality(cache.b1) <= cache.capacity
    /\ Cardinality(cache.b2) <= cache.capacity
    /\ cache.p \in 0..cache.capacity

C39_Witness ==
    /\ alast.op = "set"
    /\ cache.b2 # {}
    /\ cache.p > 0
    /\ ARCLen(cache) > 0

\* C32: the path string renders the open elements root-to-leaf: after
\* entering a, b, c it is /a/b/c, after leaving two of them it is /a, and it
\* is / when no element is open; pop_element on an empty path returns
\* nothing and leaves the path unchanged.
RECURSIVE RootToLeaf(_)
RootToLeaf(stack) ==
    IF stack = <<>> THEN <<>>
    ELSE RootToLeaf(Take(stack, Len(stack) - 1)) \o <<"/">>
         \o (IF stack[Len(stack)][1] = <<>> THEN <<>>
             ELSE <<"{">> \o stack[Len(stack)][1] \o <<"}">>)
         \o stack[Len(stack)][2]

C32_PathRendersOpenElements ==
    /\ plast.op = "get_path_str" =>
         plast.ret = Some(IF opened = <<>> THEN <<"/">> ELSE RootToLeaf(opened))
    /\ (plast.op = "pop_element" /\ plast.before = <<>>) =>
         /\ plast.ret = None
         /\ path_ctx.current_path = <<>>
    /\ (plast.op = "pop_element" /\ plast.before # <<>>) =>
         /\ plast.ret = Some(plast.before[Len(plast.before)])
         /\ path_ctx.current_path = Take(plast.before, Len(plast.before) - 1)
    /\ path_ctx.current_path = opened

C32_Witness ==
    /\ plast.op = "get_path_str"
    /\ plast.ret = Some(<<"/", "a">>)
    /\ deepest = 3
    /\ pops = 5

\* C33: after any insertions of non-empty keys (prefixes and extensions of
\* one another, insertions that split an edge, re-insertions) get(k) returns
\* the value of the latest insertion of k and nothing for a key never
\* inserted, len is the number of distinct inserted keys, and
\* keys_with_prefix(p) returns exactly the inserted keys starting with p,
\* each once.
InsertedWithPrefix(p) == {k \in SeqToSet(DictKeys(inserted)) : StartsWith(k, p)}

C33_TrieIsAMap ==
    /\ \A k \in TrieProbes :
         TrieGet(pt, k) = IF DictHas(inserted, k) THEN Some(DictGet(inserted, k)) ELSE None
    /\ pt.size = Len(inserted)
    /\ \A p \in TrieProbes :
         /\ SeqToSet(TrieKeysWithPrefix(pt, p)) = InsertedWithPrefix(p)
         /\ Len(TrieKeysWithPrefix(pt, p)) = Cardinality(InsertedWithPrefix(p))

C33_Witness ==
    /\ tlast.reshaped
    /\ tlast.fresh
    /\ Len(inserted) = 3
    /\ tops = 4
    /\ TrieKeysWithPrefix(pt, <<"a", "b">>) # <<>>

\* the invocations made by the last call, and the list that was pending on q
\* when it began
FiredByLastCall ==
    SubSeq(registry.fired, Len(elast.before.fired) + 1, Len(registry.fired))
PendingBefore(q) ==
    IF DictHas(elast.before.callbacks, q) THEN DictGet(elast.before.callbacks, q) ELSE <<>>
RegisteredNow(q) == StorageLookup(registry.kind, registry.storage, q) # None
RegisteredBefore(q) ==
    StorageLookup(elast.before.kind, elast.before.storage, q) # None

C35_RaisingCallbackCutsDrain ==
    /\ dropped \cap AllFired(registry) = {}
    /\ elast.op = "register" =>
          LET T == elast.comp[1]
              q == qname(T)
              pend == PendingBefore(q)
          IN \A i \in 1..Len(pend) :
                (/\ BodyOf(cb_bodies, pend[i]).does = "raise"
                 /\ \E k \in 1..Len(FiredByLastCall) : FiredByLastCall[k].cb = pend[i])
                => /\ registry.raised = "CallbackError"
                   /\ StorageLookup(registry.kind, registry.storage, q) = Some(T)
                   /\ ~DictHas(registry.callbacks, q)
                   /\ \A j \in (i + 1)..Len(pend) :
                         /\ pend[j] \notin AllFired(registry)
                         /\ pend[j] \in dropped

C35_Witness ==
    /\ elast.op = "register"
    /\ registry.raised = "CallbackError"
    /\ RegisteredNow(elast.qn[1])
    /\ dropped # {}
    /\ FiredByLastCall # <<>>

\* C36: after any sequence of register, defer_resolution and clear calls
\* pending_qnames() lists only names that are not registered, and every
\* listed name has at least one callback waiting.
C36_PendingOnlyOnUnregistered ==
    \A i \in 1..Len(PendingQNames(registry.callbacks)) :
        LET q == PendingQNames(registry.callbacks)[i]
        IN /\ ~RegisteredNow(q)
           /\ DictGet(registry.callbacks, q) # <<>>

C36_Witness ==
    /\ PendingQNames(registry.callbacks) # <<>>
    /\ \E q \in ReQNames : RegisteredNow(q)
    /\ registry.fired # <<>>

\* o lies on a cycle of child references
OnCycle(heap, o) ==
    /\ heap[o].child # None
    /\ o \in ReachableFrom(heap, heap[o].child[1], {})

\* C37 (as stated): freeze() returns also when child references form a
\* cycle; during one freeze() the child-freezing hook of every component
\* runs at most once, and when freeze() was called on a component of a cycle
\* every component of that cycle is frozen afterwards.
C37_FreezeTerminatesOnCycles ==
    [][(mops' # mops /\ mlast'.op = "freeze") =>
          LET o == mlast'.target
              runs == freeze_children_runs(comps, o)
          IN /\ comps' = freeze(comps, o)
             /\ \A i, j \in 1..Len(runs) : i # j => runs[i] # runs[j]
             /\ OnCycle(comps, o) =>
                   \A d \in ReachableFrom(comps', o, {}) : is_frozen(comps', d)]_vars

\* the handler hooks of this parse that raised, in order
RaisedHooks(log) == SelectSeq(log, LAMBDA h : h.raised)

\* C38: every parse() call starts from a new context (empty path, root scope
\* only, no diagnostics), an empty event buffer and a reclamation counter of
\* 0, and keeps the registered handlers; the result of a parse holds the
\* diagnostics of that parse alone, an empty path and the root scope only,
\* whatever an earlier parse left behind.
C38_EachParseStartsFresh ==
    [][/\ nparses' # nparses =>
             /\ p_context' # None
             /\ p_context'[1].current_path = <<>>
             /\ p_context'[1].namespace_stack = <<BuiltinNamespaces>>
             /\ p_context'[1].errors = <<>>
             /\ p_event_buffer' # None
             /\ p_event_buffer'[1].buffer = <<>>
             /\ p_event_buffer'[1].current = None
             /\ elements_since_clear' = 0
             /\ handlers' = handlers
       /\ result' # None =>
             LET errors == result'[1].errors
                 raisedNow == RaisedHooks(hookLog')
             IN /\ Len(errors) = Len(raisedNow)
                /\ \A i \in 1..Len(errors) : errors[i].line = raisedNow[i].elem
                /\ result'[1].context.current_path = <<>>
                /\ result'[1].context.namespace_stack = <<BuiltinNamespaces>>]_vars

C38_Witness ==
    /\ nparses = 2
    /\ pc = "done"
    /\ result # None
    /\ earlier.failed
    /\ earlier.diagnostics
    /\ earlier.open
    /\ handlers # {}

\* C40: with memory_threshold t >= 1 the count of elements completed since
\* the last coarse reclamation is within 0..t-1 after every end event; an
\* end event raises it by one, or resets it to 0 exactly when it would reach
\* t, whether or not the completed element has a parent.
C40_ReclamationCounterBounded ==
    [][/\ elements_since_clear' \in 0..(memory_threshold' - 1)
       /\ (nevents' # nevents /\ eventLog'[Len(eventLog')].type = "end"
              /\ pc' = "parsing") =>
             /\ elements_since_clear + 1 = memory_threshold
                   => elements_since_clear' = 0
             /\ elements_since_clear + 1 < memory_threshold
                   => elements_since_clear' = elements_since_clear + 1]_vars

C40_Witness ==
    /\ memory_threshold = 2
    /\ elements_since_clear = 0
    /\ docOpen = <<>>
    /\ rootSeen
    /\ Len(eventLog) = 4
    /\ eventLog[4].type = "end"
    /\ pc = "parsing"

====
